---- MODULE Spec2Model ----
(***************************************************************************)
(* State-machine model of the tape-delay engine of src/src/lib.rs          *)
(* (TapeDelay::default / initialize / process and the helpers they call),  *)
(* together with the control thread that sets the parameters.              *)
(*                                                                         *)
(* Number representation.  TLC has 32-bit integers and no reals, so        *)
(*   - a u32 is a pair <<hi, lo>> of 16-bit halves (value hi*65536 + lo);  *)
(*     the result of `as f32` may be 2^32 itself, written <<65536, 0>>;    *)
(*   - an audio amplitude (f32) is an integer number of 1/FP;              *)
(*   - a delay length or read position (f32, in samples) is an integer     *)
(*     number of 1/DFP samples;                                            *)
(*   - the LFO phase is an integer number of 2*pi/TwoPi radians;           *)
(*   - the dropout timer (f32, in samples) is an integer number of 1/TFP   *)
(*     samples; smoothing coefficients are integers in 1/CFP;              *)
(*   - knob values in [0,1] and gains are integers in 1/1000 (milli).      *)
(* Products are rounded toward minus infinity (\div) unless said otherwise.*)
(***************************************************************************)
EXTENDS Integers, Sequences, FiniteSets, TLC

VARIABLES
  \* ---- TapeParams (written by the control thread, read by the audio thread)
  distortion_mode,        \* BoolParam "Tape Only"
  broken_tape,            \* BoolParam "Broken"
  time_sync,              \* BoolParam "Time Sync"
  is_sync_active,         \* the persisted Arc<AtomicBool> field of TapeParams
  time_sync_flag,         \* is_time_sync_active, read by the delay-time formatter
  distortion_flag,        \* is_distortion_mode, read by the feedback/mix formatters
  fparams,                \* the FloatParams: gain, delay_time_ms, feedback, mix, noise, crackle, stereo_width
  editor_open,            \* editor_state.is_open()
  \* ---- TapeDelay
  delay_buffer_l,         \* [len, nz]: a Vec<f32> of length len, nz its non-zero samples
  delay_buffer_r,
  write_pos,
  sample_rate,
  current_delay_samples,
  lfo_phase,
  lp_state_l,
  lp_state_r,
  rng_seed,
  dropout_smoother,
  dropout_timer,
  meter_decay_per_sample,
  peak_meter_l,
  peak_meter_r,
  crackle_integrator_l,
  crackle_integrator_r,
  crackle_hp_l,
  crackle_hp_r,
  was_distortion_mode,
  \* ---- one call of process(): its position, its audio block, its locals
  pc,                     \* "idle" | "dist" (direct loop) | "delay" (delay loop) | "panic"
  buffer,                 \* the host's audio block: a sequence of <<left, right>> samples
  idx,                    \* number of samples of the block already processed
  loc,                    \* locals of process() that live for the whole block
  \* ---- observation of the last steps (written, never read, by the actions)
  h_in,                   \* the audio block as the host passed it
  h_prev,                 \* engine state when the current/last process() call began
  h_smp,                  \* what the last processed sample computed, and its PRNG draws
  h_blocks,               \* number of process() calls so far
  h_call                  \* the last call of a free function: arguments and result

paramVars == <<distortion_mode, broken_tape, time_sync, is_sync_active, time_sync_flag,
               distortion_flag, fparams, editor_open>>
bufVars == <<delay_buffer_l, delay_buffer_r>>
dspVars == <<write_pos, current_delay_samples, lfo_phase, lp_state_l, lp_state_r, rng_seed,
             dropout_smoother, dropout_timer, crackle_integrator_l, crackle_integrator_r,
             crackle_hp_l, crackle_hp_r>>
meterVars == <<peak_meter_l, peak_meter_r>>
procVars == <<pc, buffer, idx, loc>>
histVars == <<h_in, h_prev, h_smp, h_blocks, h_call>>
vars == <<paramVars, bufVars, dspVars, meterVars, sample_rate, meter_decay_per_sample,
          was_distortion_mode, procVars, histVars>>

(***************************************************************************)
(* Scales of the fixed-point representation.                               *)
(***************************************************************************)
FP == 10 * 1000           \* amplitude 1.0
DFP == 2 * 1000           \* one sample of delay; 1/DFP is the slew coefficient 0.0005
TwoPi == 4704 * 1000      \* the phase 2*pi; 1.5 Hz at 44100 Hz is 160 units per sample
TFP == 1000 * 1000        \* one sample of dropout timer
CFP == 100 * 1000         \* smoothing coefficient 1.0
W16 == 256 * 256          \* 2^16

Min(a, b) == IF a < b THEN a ELSE b
Max(a, b) == IF a > b THEN a ELSE b
Abs(a) == IF a < 0 THEN -a ELSE a
Clamp(x, lo, hi) == IF x < lo THEN lo ELSE IF x > hi THEN hi ELSE x

\* the element of a one-element set: { e : x \in {v} } names the value v once
The(S) == CHOOSE x \in S : TRUE
\* x * c / scale for 0 <= c, without leaving 32 bits (c is split at 1000)
MulDiv(x, c, scale) == (x * (c \div 1000)) \div (scale \div 1000) + (x * (c % 1000)) \div scale

(***************************************************************************)
(* u32 and f32 arithmetic of the pseudo-random source.                     *)
(***************************************************************************)
\* u32::wrapping_mul by a constant a = aHi*2^16 + aLo with aLo < 2^15
wrapping_mul(s, aHi, aLo) ==
  LET p == s[2] * aLo
      mid == s[1] * aLo + s[2] * aHi
  IN  <<((p \div W16) + mid) % W16, p % W16>>

\* u32::wrapping_add of a constant c = cHi*2^16 + cLo
wrapping_add(s, cHi, cLo) ==
  LET lo == s[2] + cLo
  IN  <<(s[1] + cHi + (lo \div W16)) % W16, lo % W16>>

\* number of significant bits of a value below 2^16
BitLen(n) == CHOOSE b \in 0..16 : (n < 2^b) /\ (b = 0 \/ n >= 2^(b - 1))

\* `x as f32` for a u32: round to nearest, ties to even, on 24 significant bits
u32_as_f32(s) ==
  IF s[1] < 256 THEN s
  ELSE LET ulp == 2^(BitLen(s[1]) - 8)
           r == s[2] % ulp
           base == s[2] - r
           odd == (s[2] \div ulp) % 2 = 1
           up == (2 * r > ulp) \/ (2 * r = ulp /\ odd)
       IN  IF ~up THEN <<s[1], base>>
           ELSE IF base + ulp < W16 THEN <<s[1], base + ulp>>
           ELSE <<s[1] + 1, 0>>

\* a > b for two 32-bit quantities
Gt32(a, b) == a[1] > b[1] \/ (a[1] = b[1] /\ a[2] > b[2])

\* a generator that steps over 0
lcg_step_skips_zero(seed) ==
  The({IF s = <<0, 0>> THEN <<0, 1>> ELSE s
         : s \in {wrapping_add(wrapping_mul(seed, 25, 26125), 15470, 62303)}})

\* the generator with the increment added before the multiplication
lcg_step_add_first(seed) == wrapping_mul(wrapping_add(seed, 15470, 62303), 25, 26125)

\* One step of the generator (lines 712, 718, 724)
lcg_step(seed) == wrapping_add(wrapping_mul(seed, 25, 26125), 15470, 62303)

\* (x as f32 / u32::MAX as f32) * 2.0 - 1.0 as an amplitude; u32::MAX as f32 is 2^32
unit_to_bipolar(f) == (f[1] * 2 * FP + (f[2] * 2 * FP) \div W16) \div W16 - FP

\* get_noise: the new seed, the returned amplitude, and the f32 image of the seed
get_noise(seed) ==
  The({The({[seed |-> s, out |-> unit_to_bipolar(f), f |-> f] : f \in {u32_as_f32(s)}})
         : s \in {lcg_step(seed)}})

\* get_crackle: one draw for the magnitude, a second one for the polarity only
\* when the magnitude exceeds the threshold (threshold given as threshold * 2^32)
get_crackle(seed, threshold) ==
  The({IF Gt32(u32_as_f32(s1), threshold)
       THEN The({[seed |-> s2, out |-> IF s2[1] >= 32768 THEN FP \div 5 ELSE -(FP \div 5),
                  draws |-> <<[k |-> "mag", from |-> seed, to |-> s1],
                              [k |-> "pol", from |-> s1, to |-> s2]>>]
                   : s2 \in {lcg_step(s1)}})
       ELSE [seed |-> s1, out |-> 0,
             draws |-> <<[k |-> "mag", from |-> seed, to |-> s1]>>]
         : s1 \in {lcg_step(seed)}})

(***************************************************************************)
(* Elementary functions.  sin and tanh are rational approximations with    *)
(* the exact range [-1, 1]; powf, sqrt and exp are tabulated on the values *)
(* the model feeds them.                                                   *)
(***************************************************************************)
\* 1000 * sin(phase): Bhaskara's approximation 16y(pi-y) / (5pi^2 - 4y(pi-y))
sin_milli(phase) ==
  LET x == phase % TwoPi
      half == TwoPi \div 2
      y == (IF x > half THEN x - half ELSE x) \div (half \div 500)
      p == y * (500 - y)
      s == (16000 * p) \div (1250000 - 4 * p)
  IN  IF x > half THEN -s ELSE s

\* FP * tanh(x / FP): the Pade approximant x(27 + x^2)/(27 + 9x^2), saturating at |x| >= 3
tanh_fp(x) ==
  LET a == Abs(x)
      x2 == (a * a) \div FP
      ratio == ((27 * FP + x2) * 1000) \div (27 * FP + 9 * x2)
      t == IF a >= 3 * FP THEN FP ELSE (a * ratio) \div 1000
  IN  IF x < 0 THEN -t ELSE t

\* 1000 * (g/1000)^0.60
powf_060(g) ==
  CASE g = 1000 -> 1000 [] g = 2000 -> 1516 [] g = 4000 -> 2297 [] g = 10000 -> 3981

\* 1000 * sqrt(g/1000)
sqrt_milli(g) ==
  CASE g = 1000 -> 1000 [] g = 2000 -> 1414 [] g = 4000 -> 2000 [] g = 10000 -> 3162

\* CFP * (1 - exp(-1 / (0.030 * sr)))
recovery_speed(sr) ==
  CASE sr = 3 -> 99998 [] sr = 100 -> 28347 [] sr = 200 -> 15352
    [] sr = 44100 -> 75 [] sr = 48000 -> 69

\* FP-free decay factor of the meters, in 1/CFP: 10^(-30 / (20 * sr))
meter_decay(sr) ==
  CASE sr = 3 -> 31623 [] sr = 100 -> 96605 [] sr = 200 -> 98288
    [] sr = 44100 -> 99992 [] sr = 48000 -> 99993

(***************************************************************************)
(* Helpers of the process loop (lines 695-947).                            *)
(***************************************************************************)
\* one_pole_lp: the new filter state, which is also the output; cutoff in milli
one_pole_lp(input, state, cutoff) == state + ((cutoff * (input - state)) \div 1000)

\* a clipper that only applies the drive
soft_clip_linear(sample, drive) == (sample * drive) \div 1000

\* soft_clip: tanh(sample * drive); drive in milli
soft_clip(sample, drive) == tanh_fp((sample * drive) \div 1000)

\* calculate_tape_constants; the crackle threshold is kept as threshold * 2^32,
\* rounded to f32 like the value it is compared with
calculate_tape_constants(sr, is_broken) ==
  LET n == 3 * W16                       \* 3.0 / sr in 1/2^32: long division of 3 * 2^32
      qh == n \div sr
      r1 == n % sr
      qa == (r1 * 256) \div sr
      r2 == (r1 * 256) % sr
      qb == (r2 * 256) \div sr
      ql == qa * 256 + qb
      thr == IF ql = 0 THEN <<W16 - qh, 0>> ELSE <<W16 - 1 - qh, W16 - ql>>
  IN  [flutter_rate |-> (TwoPi * 3) \div (2 * sr),
       noise_amount |-> 5000,            \* 0.005 in 1/10^6
       crackle_amount |-> 150000,        \* 0.15 in 1/10^6
       current_tone_cutoff |-> IF is_broken THEN 450 ELSE 850,
       crackle_threshold |-> IF thr[1] < 0 THEN <<0, 0>> ELSE u32_as_f32(thr)]

\* the phase advanced without the wrap
update_lfo_phase_unwrapped(phase, flutter_rate) == phase + flutter_rate

\* update_lfo_phase: the new phase
update_lfo_phase(phase, flutter_rate) ==
  IF phase + flutter_rate > TwoPi THEN phase + flutter_rate - TwoPi
  ELSE phase + flutter_rate

\* 1000 * (g/1000)^0.35
powf_035(g) ==
  CASE g = 1000 -> 1000 [] g = 2000 -> 1275 [] g = 4000 -> 1625 [] g = 10000 -> 2239

\* the compensation with the exponent 0.35 in place of 0.60
calculate_gain_compensation_035(gain_amt, noise_amount, crackle_amount, noise_volume, crackle_volume) ==
  LET makeup_gain == (1000 * 1000) \div powf_035(gain_amt)
      compensation_factor == (gain_amt * makeup_gain) \div 1000
      compensated_noise_amt == (noise_amount * 1000) \div compensation_factor
      compensated_crackle_amt == (crackle_amount * 1000) \div compensation_factor
  IN  [makeup_gain |-> makeup_gain,
       noise_amt |-> (compensated_noise_amt * noise_volume) \div 1000,
       crackle_amt |-> (compensated_crackle_amt * crackle_volume) \div 1000]

\* calculate_gain_compensation: makeup gain in milli, noise and crackle amounts in 1/10^6
calculate_gain_compensation(gain_amt, noise_amount, crackle_amount, noise_volume, crackle_volume) ==
  LET makeup_gain == (1000 * 1000) \div powf_060(gain_amt)
      compensation_factor == (gain_amt * makeup_gain) \div 1000
      compensated_noise_amt == (noise_amount * 1000) \div compensation_factor
      compensated_crackle_amt == (crackle_amount * 1000) \div compensation_factor
  IN  [makeup_gain |-> makeup_gain,
       noise_amt |-> (compensated_noise_amt * noise_volume) \div 1000,
       crackle_amt |-> (compensated_crackle_amt * crackle_volume) \div 1000]

\* rand_val > 0.99995 for rand_val = |noise|, decided on the f32 image f of the seed:
\* noise > c  iff  f > (1 + c) * 2^31, and  -noise > c  iff  f <= 2^31 - 107328,
\* c being the f32 nearest to 0.99995
rand_exceeds(f) == Gt32(f, <<65534, 23680>>) \/ ~Gt32(f, <<1, 41792>>)

\* the health without the safety clamp of line 833
broken_health_unclamped(smoother, timer, seed, sr) ==
  The({
  LET rand_val == Abs(n.out)
      timer1 == IF rand_exceeds(n.f) /\ timer <= 0
                THEN ((50000 + 15 * rand_val) \div 10) * sr
                ELSE timer
      target_health == IF timer1 > 0 THEN (3 * FP) \div 10 ELSE FP
      timer2 == IF timer1 > 0 THEN timer1 - TFP ELSE timer1
      coeff == IF target_health < smoother THEN recovery_speed(sr) * 40
               ELSE recovery_speed(sr)
      s1 == smoother + MulDiv(target_health - smoother, coeff, CFP)
  IN  [smoother |-> s1, timer |-> timer2, seed |-> n.seed, ret |-> s1,
       target |-> target_health, started |-> timer1 # timer,
       draws |-> <<[k |-> "dropout", from |-> seed, to |-> n.seed]>>]
    : n \in {get_noise(seed)}})

\* the trigger without its `*dropout_timer <= 0.0` conjunct: a draw above the threshold
\* sets the timer even while a dropout is in progress
broken_health_restarts(smoother, timer, seed, sr) ==
  The({
  LET rand_val == Abs(n.out)
      timer1 == IF rand_exceeds(n.f)
                THEN ((50000 + 15 * rand_val) \div 10) * sr
                ELSE timer
      target_health == IF timer1 > 0 THEN (3 * FP) \div 10 ELSE FP
      timer2 == IF timer1 > 0 THEN timer1 - TFP ELSE timer1
      coeff == IF target_health < smoother THEN recovery_speed(sr) * 40
               ELSE recovery_speed(sr)
      s1 == smoother + MulDiv(target_health - smoother, coeff, CFP)
      s2 == Clamp(s1, 0, FP)
  IN  [smoother |-> s2, timer |-> timer2, seed |-> n.seed, ret |-> s2,
       target |-> target_health, started |-> timer1 # timer,
       draws |-> <<[k |-> "dropout", from |-> seed, to |-> n.seed]>>]
    : n \in {get_noise(seed)}})

\* update_dropout_smoother with broken-tape on (lines 800-837)
broken_health(smoother, timer, seed, sr) ==
  The({
  LET rand_val == Abs(n.out)
      timer1 == IF rand_exceeds(n.f) /\ timer <= 0
                THEN ((50000 + 15 * rand_val) \div 10) * sr
                ELSE timer
      target_health == IF timer1 > 0 THEN (3 * FP) \div 10 ELSE FP
      timer2 == IF timer1 > 0 THEN timer1 - TFP ELSE timer1
      coeff == IF target_health < smoother THEN recovery_speed(sr) * 40
               ELSE recovery_speed(sr)
      s1 == smoother + MulDiv(target_health - smoother, coeff, CFP)
      s2 == Clamp(s1, 0, FP)
  IN  [smoother |-> s2, timer |-> timer2, seed |-> n.seed, ret |-> s2,
       target |-> target_health, started |-> timer1 # timer,
       draws |-> <<[k |-> "dropout", from |-> seed, to |-> n.seed]>>]
    : n \in {get_noise(seed)}})

\* the off branch resetting the health but leaving the timer running
update_dropout_smoother_keeps_timer(is_broken, smoother, timer, seed, sr) ==
  IF is_broken THEN broken_health(smoother, timer, seed, sr)
  ELSE [smoother |-> FP, timer |-> timer, seed |-> seed, ret |-> FP,
        target |-> FP, started |-> FALSE, draws |-> <<>>]

\* update_dropout_smoother: the new health, timer and seed, the returned volume,
\* and the draws it made
update_dropout_smoother(is_broken, smoother, timer, seed, sr) ==
  IF is_broken THEN broken_health(smoother, timer, seed, sr)
  ELSE [smoother |-> FP, timer |-> 0, seed |-> seed, ret |-> FP,
        target |-> FP, started |-> FALSE, draws |-> <<>>]

\* the two sources called in the other order: crackle first, then noise
generate_crackle_then_noise(seed, crackle_integrator, crackle_hp, crackle_threshold, compensated_noise_amt, compensated_crackle_amt) ==
  The({The({
  LET integ == ((crackle_integrator + c.out) * 99) \div 100
      output == integ - crackle_hp
      hp == (integ + 9 * crackle_hp) \div 10
  IN  [seed |-> n.seed, crackle_integrator |-> integ, crackle_hp |-> hp,
       noise |-> MulDiv(n.out, compensated_noise_amt, 1000 * 1000),
       crackle |-> MulDiv(output, compensated_crackle_amt, 1000 * 1000),
       draws |-> c.draws \o <<[k |-> "noise", from |-> c.seed, to |-> n.seed]>>]
    : n \in {get_noise(c.seed)}})
    : c \in {get_crackle(seed, crackle_threshold)}})

\* generate_tape_noise_and_crackle: noise and crackle amplitudes, the new seed and
\* crackle-shaper states, and the draws in the order they were made
generate_tape_noise_and_crackle(seed, crackle_integrator, crackle_hp, crackle_threshold, compensated_noise_amt, compensated_crackle_amt) ==
  The({The({
  LET integ == ((crackle_integrator + c.out) * 99) \div 100
      output == integ - crackle_hp
      hp == (integ + 9 * crackle_hp) \div 10
  IN  [seed |-> c.seed, crackle_integrator |-> integ, crackle_hp |-> hp,
       noise |-> MulDiv(n.out, compensated_noise_amt, 1000 * 1000),
       crackle |-> MulDiv(output, compensated_crackle_amt, 1000 * 1000),
       draws |-> <<[k |-> "noise", from |-> seed, to |-> n.seed]>> \o c.draws]
    : c \in {get_crackle(n.seed, crackle_threshold)}})
    : n \in {get_noise(seed)}})

\* process_direct_distortion_channel
process_direct_distortion_channel(input, lp_state, seed, crackle_integrator, crackle_hp, tone_cutoff, crackle_threshold, compensated_noise_amt, compensated_crackle_amt, vol_mod, gain_amt, makeup_gain) ==
  The({The({
    [out |-> (filtered_output * makeup_gain) \div 1000, lp_state |-> filtered_output,
     seed |-> g.seed, crackle_integrator |-> g.crackle_integrator,
     crackle_hp |-> g.crackle_hp, draws |-> g.draws]
    : filtered_output \in
        {one_pole_lp(soft_clip(((input + g.noise + g.crackle) * vol_mod) \div FP, gain_amt),
                     lp_state, tone_cutoff)}})
    : g \in {generate_tape_noise_and_crackle(seed, crackle_integrator, crackle_hp,
               crackle_threshold, compensated_noise_amt, compensated_crackle_amt)}})

\* process_delay_channel: the signal to record and the output sample
process_delay_channel(input, raw_delayed, lp_state, seed, crackle_integrator, crackle_hp, tone_cutoff, crackle_threshold, compensated_noise_amt, compensated_crackle_amt, feedback_gain, vol_mod, gain_amt, makeup_gain, mix_amt) ==
  The({The({
  LET sum == input + ((filtered_feedback * feedback_gain) \div 1000) + g.noise + g.crackle
      signal_to_record == soft_clip((sum * vol_mod) \div FP, gain_amt)
      wet_signal == (raw_delayed * makeup_gain) \div 1000
      output == (input * (1000 - mix_amt) + wet_signal * mix_amt) \div 1000
  IN  [rec |-> signal_to_record, out |-> output, lp_state |-> filtered_feedback,
       seed |-> g.seed, crackle_integrator |-> g.crackle_integrator,
       crackle_hp |-> g.crackle_hp, draws |-> g.draws]
    : filtered_feedback \in {one_pole_lp(raw_delayed, lp_state, tone_cutoff)}})
    : g \in {generate_tape_noise_and_crackle(seed, crackle_integrator, crackle_hp,
               crackle_threshold, compensated_noise_amt, compensated_crackle_amt)}})

(***************************************************************************)
(* The delay line: a Vec<f32> is [len, nz], nz holding its non-zero        *)
(* samples by index (every other index below len holds 0.0).               *)
(***************************************************************************)
vec_zeros(n) == [len |-> n, nz |-> <<>>]
vec_get(v, i) == IF i \in DOMAIN v.nz THEN v.nz[i] ELSE 0
\* *v.get_mut(i) = x, which does nothing when i is out of range
vec_set(v, i, x) ==
  IF i < 0 \/ i >= v.len THEN v
  ELSE LET d == IF x = 0 THEN DOMAIN v.nz \ {i} ELSE DOMAIN v.nz \cup {i}
       IN  [len |-> v.len, nz |-> [j \in d |-> IF j = i THEN x ELSE v.nz[j]]]

\* f32 `as usize`: saturating, so a negative value becomes 0
as_usize(x) == IF x < 0 THEN 0 ELSE x

\* line 1013: (read_pos_floor as usize) % len
index_a(len, read_pos_floor) == as_usize(read_pos_floor) % len

\* the second index without the wrap
index_b_unwrapped(len, a) == a + 1

\* line 1015: (index_a + 1) % len
index_b(len, a) == (a + 1) % len

\* linear_interpolate at read_pos (in 1/DFP samples)
linear_interpolate(v, read_pos) ==
  IF v.len = 0 THEN 0
  ELSE IF v.len = 1 THEN vec_get(v, 0)
  ELSE LET read_pos_floor == read_pos \div DFP
           fraction == read_pos - read_pos_floor * DFP
           a == index_a(v.len, read_pos_floor)
           b == index_b(v.len, a)
       IN  (vec_get(v, a) * (DFP - fraction) + vec_get(v, b) * fraction) \div DFP

(***************************************************************************)
(* Peak meters (lines 949-988).                                            *)
(***************************************************************************)
RECURSIVE powf_cfp(_, _)
\* f32::powf(base, n) for a number n of samples; base and result in 1/CFP
powf_cfp(base, n) == IF n = 0 THEN CFP ELSE MulDiv(powf_cfp(base, n - 1), base, CFP)

\* a meter whose attack moves the peak only half-way to the block maximum
new_peak_half_attack(current_peak, max_amplitude, block_decay) ==
  LET p == IF max_amplitude > current_peak THEN (current_peak + max_amplitude) \div 2
           ELSE MulDiv(current_peak, block_decay, CFP)
  IN  IF p < FP \div 1000 THEN 0 ELSE p

\* a meter that keeps a decayed peak however small it has become
new_peak_unfloored(current_peak, max_amplitude, block_decay) ==
  IF max_amplitude > current_peak THEN max_amplitude
  ELSE MulDiv(current_peak, block_decay, CFP)

\* one meter of update_peak_meters: instant attack, decay, snap to 0 below 0.001
new_peak(current_peak, max_amplitude, block_decay) ==
  LET p == IF max_amplitude > current_peak THEN max_amplitude
           ELSE MulDiv(current_peak, block_decay, CFP)
  IN  IF p < FP \div 1000 THEN 0 ELSE p

\* a meter feed that does not ask whether the editor is open
update_peak_meters_unasked(is_open, buffer_samples, decay_per_sample, peak_l, peak_r, max_amplitude_l, max_amplitude_r) ==
  LET block_decay == powf_cfp(decay_per_sample, buffer_samples)
  IN  <<new_peak(peak_l, max_amplitude_l, block_decay),
        new_peak(peak_r, max_amplitude_r, block_decay)>>

\* update_peak_meters: the pair of stored peaks after the call
update_peak_meters(is_open, buffer_samples, decay_per_sample, peak_l, peak_r, max_amplitude_l, max_amplitude_r) ==
  IF ~is_open THEN <<peak_l, peak_r>>
  ELSE LET block_decay == powf_cfp(decay_per_sample, buffer_samples)
       IN  <<new_peak(peak_l, max_amplitude_l, block_decay),
             new_peak(peak_r, max_amplitude_r, block_decay)>>

(***************************************************************************)
(* Tempo-sync quantizer (lines 656-693).                                   *)
(***************************************************************************)
TIME_MS_MIN == 1
TIME_MS_MAX == 1500
NUM_SYNC_STEPS == 18

\* a quantizer without the safety clamp
normalized_to_sync_step_unclamped(num, den) == (num * NUM_SYNC_STEPS) \div den

\* a quantizer that spreads the knob over one step too few
normalized_to_sync_step_short(num, den) ==
  Clamp((num * (NUM_SYNC_STEPS - 1)) \div den, 0, NUM_SYNC_STEPS - 1)

\* normalized_to_sync_step for normalized = num / den (den > 0)
normalized_to_sync_step(num, den) ==
  Clamp((num * NUM_SYNC_STEPS) \div den, 0, NUM_SYNC_STEPS - 1)

\* the match of get_beat_info: multiplier in 1/10000 and label
beat_table(step_index) ==
  CASE step_index = 0 -> <<625, "1/64">>
    [] step_index = 1 -> <<1250, "1/32">>
    [] step_index = 2 -> <<1667, "1/16 T">>
    [] step_index = 3 -> <<1875, "1/32 .">>
    [] step_index = 4 -> <<2500, "1/16">>
    [] step_index = 5 -> <<3333, "1/8 T">>
    [] step_index = 6 -> <<3750, "1/16 .">>
    [] step_index = 7 -> <<5000, "1/8">>
    [] step_index = 8 -> <<6667, "1/4 T">>
    [] step_index = 9 -> <<7500, "1/8 .">>
    [] step_index = 10 -> <<10000, "1/4">>
    [] step_index = 11 -> <<13333, "1/2 T">>
    [] step_index = 12 -> <<15000, "1/4 .">>
    [] step_index = 13 -> <<20000, "1/2">>
    [] step_index = 14 -> <<26667, "1/1 T">>
    [] step_index = 15 -> <<30000, "1/2 .">>
    [] step_index = 16 -> <<40000, "1 Bar">>
    [] step_index = 17 -> <<80000, "2 Bar">>
    [] OTHER -> <<10000, "1/4">>

get_beat_info(num, den) == beat_table(normalized_to_sync_step(num, den))

\* a raw target that takes the knob for milliseconds whether tempo sync is on or not
raw_target_samples_unsynced(sync, tempo, current_ms, sr) == current_ms * sr * 2

\* lines 437-461: the raw target delay in 1/DFP samples; tempo = 0 stands for None
raw_target_samples(sync, tempo, current_ms, sr) ==
  IF sync
  THEN LET bpm == IF tempo = 0 THEN 120 ELSE tempo
           multiplier == get_beat_info(current_ms - TIME_MS_MIN, TIME_MS_MAX - TIME_MS_MIN)[1]
       IN  ((sr * 12) \div bpm) * multiplier        \* (60 / bpm) * multiplier * sr
             + (((sr * 12) % bpm) * multiplier) \div bpm
  ELSE current_ms * sr * 2                          \* (ms / 1000) * sr

\* lines 463-470: the safety clamp
target_delay_samples(raw_target, buffer_len) == Min(raw_target, (buffer_len - 100) * DFP)

(***************************************************************************)
(* Initial state: TapeParams::default and TapeDelay::default.              *)
(***************************************************************************)
DefaultFloatParams ==
  [gain |-> 1000, delay_time_ms |-> 200, feedback |-> 300, mix |-> 300,
   noise |-> 800, crackle |-> 800, stereo_width |-> 0]

NoSample ==
  [mode |-> "none", draws |-> <<>>, is_broken |-> FALSE, raw_l |-> 0, raw_r |-> 0,
   mod_l |-> 0, mod_r |-> 0, read_l |-> 0, read_r |-> 0, wp |-> 0, len |-> 0,
   tap_l |-> 0, tap_r |-> 0, in |-> <<0, 0>>, out |-> <<0, 0>>,
   vol |-> FP, smoother0 |-> FP, timer0 |-> 0, seed0 |-> <<0, 0>>, prev_phase |-> 0,
   target |-> FP, started |-> FALSE, gain |-> 1000, makeup |-> 1000,
   noise_amt |-> 0, crackle_amt |-> 0, cur0 |-> 0, rec |-> <<0, 0>>,
   old |-> <<0, 0>>]

NoLocals ==
  [is_distortion_mode |-> FALSE, is_broken |-> FALSE, sync |-> FALSE, tempo |-> 0,
   raw_target |-> 0, target |-> 0, width_amt |-> 0,
   max_l |-> 0, max_r |-> 0]

\* no free function has been called yet
NoCall == [fn |-> "none", args |-> <<>>, out |-> <<>>, prev_args |-> <<>>, prev_out |-> <<>>]

\* the engine fields a claim compares with their value at the start of the block
Snapshot ==
  [was |-> was_distortion_mode, buf_l |-> delay_buffer_l, buf_r |-> delay_buffer_r,
   write_pos |-> write_pos, cur |-> current_delay_samples, lfo |-> lfo_phase,
   seed |-> rng_seed, lp_l |-> lp_state_l, lp_r |-> lp_state_r,
   peak_l |-> peak_meter_l, peak_r |-> peak_meter_r,
   integ_l |-> crackle_integrator_l, integ_r |-> crackle_integrator_r]

\* the engine as TapeDelay::default builds it, with one of the seeds
InitEngine(seeds) ==
  /\ distortion_mode = FALSE
  /\ broken_tape = FALSE
  /\ time_sync = TRUE
  /\ is_sync_active = FALSE          \* line 124 stores is_tape_broken, created false
  /\ time_sync_flag = TRUE
  /\ distortion_flag = FALSE
  /\ fparams = DefaultFloatParams
  /\ editor_open = FALSE
  /\ delay_buffer_l = vec_zeros(0)
  /\ delay_buffer_r = vec_zeros(0)
  /\ write_pos = 0
  /\ sample_rate = 44100
  /\ current_delay_samples = 0
  /\ lfo_phase = 0
  /\ lp_state_l = 0
  /\ lp_state_r = 0
  /\ rng_seed \in seeds
  /\ dropout_smoother = FP
  /\ dropout_timer = 0
  /\ meter_decay_per_sample = CFP
  /\ peak_meter_l = 0
  /\ peak_meter_r = 0
  /\ crackle_integrator_l = 0
  /\ crackle_integrator_r = 0
  /\ crackle_hp_l = 0
  /\ crackle_hp_r = 0
  /\ was_distortion_mode = FALSE
  /\ pc = "idle"
  /\ buffer = <<>>
  /\ idx = 0
  /\ loc = NoLocals
  /\ h_in = <<>>
  /\ h_prev = Snapshot
  /\ h_smp = NoSample
  /\ h_blocks = 0

InitWith(seeds) == InitEngine(seeds) /\ h_call = NoCall

(***************************************************************************)
(* Control thread: parameter changes.  A BoolParam's callback runs with    *)
(* the change (lines 159-171); the FloatParams are set as one preset.      *)
(***************************************************************************)
SetDistortionMode(v) ==
  /\ v # distortion_mode
  /\ distortion_mode' = v
  /\ distortion_flag' = v
  /\ UNCHANGED <<broken_tape, time_sync, is_sync_active, time_sync_flag, fparams, editor_open>>
  /\ UNCHANGED <<bufVars, dspVars, meterVars, sample_rate, meter_decay_per_sample,
                 was_distortion_mode, procVars, histVars>>

SetBrokenTape(v) ==
  /\ v # broken_tape
  /\ broken_tape' = v
  /\ is_sync_active' = v             \* tape_broken_flag_for_callback is the stored field
  /\ UNCHANGED <<distortion_mode, time_sync, time_sync_flag, distortion_flag, fparams, editor_open>>
  /\ UNCHANGED <<bufVars, dspVars, meterVars, sample_rate, meter_decay_per_sample,
                 was_distortion_mode, procVars, histVars>>

SetTimeSync(v) ==
  /\ v # time_sync
  /\ time_sync' = v
  /\ time_sync_flag' = v
  /\ UNCHANGED <<distortion_mode, broken_tape, is_sync_active, distortion_flag, fparams, editor_open>>
  /\ UNCHANGED <<bufVars, dspVars, meterVars, sample_rate, meter_decay_per_sample,
                 was_distortion_mode, procVars, histVars>>

SetFloatParams(p) ==
  /\ p # fparams
  /\ fparams' = p
  /\ UNCHANGED <<distortion_mode, broken_tape, time_sync, is_sync_active, time_sync_flag,
                 distortion_flag, editor_open>>
  /\ UNCHANGED <<bufVars, dspVars, meterVars, sample_rate, meter_decay_per_sample,
                 was_distortion_mode, procVars, histVars>>

SetEditorOpen(v) ==
  /\ v # editor_open
  /\ editor_open' = v
  /\ UNCHANGED <<distortion_mode, broken_tape, time_sync, is_sync_active, time_sync_flag,
                 distortion_flag, fparams>>
  /\ UNCHANGED <<bufVars, dspVars, meterVars, sample_rate, meter_decay_per_sample,
                 was_distortion_mode, procVars, histVars>>

(***************************************************************************)
(* Host: initialize (lines 292-313), never while a block is processed.     *)
(***************************************************************************)
Initialize(sr) ==
  /\ pc = "idle"
  /\ sample_rate' = sr
  /\ delay_buffer_l' = vec_zeros(as_usize(sr * 2))
  /\ delay_buffer_r' = vec_zeros(as_usize(sr * 2))
  /\ meter_decay_per_sample' = meter_decay(sr)
  /\ UNCHANGED <<paramVars, dspVars, meterVars, was_distortion_mode, procVars, histVars>>

(***************************************************************************)
(* Audio thread: process (lines 317-644), one action for the part before   *)
(* the sample loop, one per iteration of the loop, one for the part after. *)
(***************************************************************************)
\* the edge detection comparing the new mode with itself: it never sees the edge
clear_on_stale_edge(was, is_distortion, v) ==
  IF is_distortion /\ ~is_distortion THEN vec_zeros(v.len) ELSE v

\* the edge detection clearing on either edge
clear_on_any_switch(was, is_distortion, v) ==
  IF was # is_distortion THEN vec_zeros(v.len) ELSE v

\* lines 329-337: the buffer after the edge detection
clear_on_mode_switch(was, is_distortion, v) ==
  IF was /\ ~is_distortion THEN vec_zeros(v.len) ELSE v

\* the flag read again from the parameter at every sample
block_flag_live(at_block_start, live) == live

\* lines 344 and 472: `let is_broken = self.params.broken_tape.value()` is bound once,
\* before the sample loop; every sample of the block uses the bound value and never the
\* parameter itself
block_flag(at_block_start, live) == at_block_start

\* the early return left out
returns_never(buffer_len) == FALSE

\* line 480: the guard of the early return
returns_early(buffer_len) == buffer_len = 0

\* the modulated delay length without the clamp
mod_delay_samples_unclamped(current, spread, flutter_offset) == current + spread + flutter_offset

\* lines 512-513: a channel's modulated delay length
mod_delay_samples(current, spread, flutter_offset) == Max(current + spread + flutter_offset, 0)

\* the tap read after the input sample has been put at the write cursor
tape_read_after_write(v, position, cursor, input) ==
  linear_interpolate(vec_set(v, cursor, input), position)

\* lines 562 and 596: raw_delayed = linear_interpolate(&self.delay_buffer, read_pos),
\* taken before process_delay_channel and before the write at the cursor
tape_read(v, position, cursor, input) == linear_interpolate(v, position)

\* a slew with coefficient 2: it lands as far beyond the target as it was before it
slew_overshoots(current, target) == current + 2 * (target - current)

\* lines 501-504: the slew of the smoothed delay length, coefficient 0.0005
slew(current, target) == current + ((target - current) \div 2000)

\* the write head advanced without the wrap
next_write_pos_unwrapped(pos, buffer_len) == pos + 1

\* line 630: the write head after a sample
next_write_pos(pos, buffer_len) == (pos + 1) % buffer_len

\* lines 554-555: (write_pos - mod_delay).rem_euclid(buffer_len), in 1/DFP samples
read_pos(pos, mod_delay, buffer_len) == (pos * DFP - mod_delay) % (buffer_len * DFP)

ProcessBegin(block, tempo) ==
  /\ pc = "idle"
  /\ LET buffer_len == delay_buffer_l.len
         is_distortion_mode == distortion_mode
         is_broken == broken_tape
         raw == raw_target_samples(time_sync, tempo, fparams.delay_time_ms, sample_rate)
         early == ~is_distortion_mode /\ returns_early(buffer_len)
     IN  /\ delay_buffer_l' = clear_on_mode_switch(was_distortion_mode, is_distortion_mode, delay_buffer_l)
         /\ delay_buffer_r' = clear_on_mode_switch(was_distortion_mode, is_distortion_mode, delay_buffer_r)
         /\ was_distortion_mode' = is_distortion_mode
         /\ loc' = [is_distortion_mode |-> is_distortion_mode,
                    is_broken |-> is_broken,
                    sync |-> ~is_distortion_mode /\ time_sync,
                    tempo |-> tempo,
                    raw_target |-> IF is_distortion_mode THEN 0 ELSE raw,
                    target |-> IF is_distortion_mode THEN 0
                               ELSE target_delay_samples(raw, buffer_len),
                    width_amt |-> IF is_distortion_mode THEN 0 ELSE fparams.stereo_width,
                    max_l |-> 0, max_r |-> 0]
         /\ pc' = IF is_distortion_mode THEN "dist" ELSE IF early THEN "idle" ELSE "delay"
         /\ h_blocks' = IF early THEN h_blocks + 1 ELSE h_blocks
  /\ buffer' = block
  /\ idx' = 0
  /\ h_in' = block
  /\ h_prev' = Snapshot
  /\ h_smp' = NoSample
  /\ UNCHANGED <<paramVars, dspVars, meterVars, sample_rate, meter_decay_per_sample, h_call>>

\* lines 350-420: one iteration of the direct (distortion-only) loop, run with the
\* float parameters p and an engine whose delay line is buf_l, buf_r, wp, cur
DirectSampleOf(p, buf_l, buf_r, wp, cur) ==
  The({The({The({The({
    [lfo_phase |-> update_lfo_phase(lfo_phase, tc.flutter_rate),
     d |-> d, l |-> l, r |-> r, in |-> buffer[idx + 1], tc |-> tc, gc |-> gc,
     buf_l |-> buf_l, buf_r |-> buf_r, write_pos |-> wp, cur |-> cur, panic |-> FALSE,
     obs |-> [raw_l |-> 0, raw_r |-> 0, mod_l |-> 0, mod_r |-> 0, read_l |-> 0,
              read_r |-> 0, tap_l |-> 0, tap_r |-> 0]]
    : r \in {process_direct_distortion_channel(buffer[idx + 1][2], lp_state_r, l.seed,
               crackle_integrator_r, crackle_hp_r, tc.current_tone_cutoff,
               tc.crackle_threshold, gc.noise_amt, gc.crackle_amt, d.ret, p.gain,
               gc.makeup_gain)}})
    : l \in {process_direct_distortion_channel(buffer[idx + 1][1], lp_state_l, d.seed,
               crackle_integrator_l, crackle_hp_l, tc.current_tone_cutoff,
               tc.crackle_threshold, gc.noise_amt, gc.crackle_amt, d.ret, p.gain,
               gc.makeup_gain)}})
    : gc \in {calculate_gain_compensation(p.gain, tc.noise_amount, tc.crackle_amount,
                                          p.noise, p.crackle)}})
    : tc \in {calculate_tape_constants(sample_rate, block_flag(loc.is_broken, broken_tape))},
      d \in {update_dropout_smoother(block_flag(loc.is_broken, broken_tape), dropout_smoother, dropout_timer,
                                     rng_seed, sample_rate)}})

DirectSample ==
  DirectSampleOf(fparams, delay_buffer_l, delay_buffer_r, write_pos, current_delay_samples)

\* lines 506-555: the two heads of one iteration of the delay loop: the slewed delay
\* length, the modulated lengths and the read positions
DelayHeads(phase, width_amt, target, panic) ==
  LET buffer_len == delay_buffer_l.len
      flutter_depth == 15
      phase_offset_r == width_amt * ((TwoPi \div 2) \div 1000)   \* width * PI
      flutter_offset_l == (sin_milli(phase) * flutter_depth * DFP) \div 1000
      flutter_offset_r == (sin_milli(phase + phase_offset_r) * flutter_depth * DFP) \div 1000
      spread_samples == (width_amt * sample_rate) \div 50        \* width * 0.010 * sr
  IN  The({The({
        [cur |-> cur,
         raw_l |-> cur - spread_samples + flutter_offset_l,
         raw_r |-> cur + spread_samples + flutter_offset_r,
         mod_l |-> mod_l, mod_r |-> mod_r,
         read_l |-> IF panic THEN 0 ELSE read_pos(write_pos, mod_l, buffer_len),
         read_r |-> IF panic THEN 0 ELSE read_pos(write_pos, mod_r, buffer_len)]
        : mod_l \in {mod_delay_samples(cur, -spread_samples, flutter_offset_l)},
          mod_r \in {mod_delay_samples(cur, spread_samples, flutter_offset_r)}})
        : cur \in {slew(current_delay_samples, target)}})

\* lines 489-631: one iteration of the delay loop
DelaySample ==
  The({The({The({The({
    [lfo_phase |-> h.phase, d |-> d, l |-> l, r |-> r, in |-> buffer[idx + 1],
     tc |-> tc, gc |-> h.gc,
     buf_l |-> vec_set(delay_buffer_l, write_pos, l.rec),
     buf_r |-> vec_set(delay_buffer_r, write_pos, r.rec),
     write_pos |-> IF h.panic THEN write_pos
                   ELSE next_write_pos(write_pos, delay_buffer_l.len),
     cur |-> h.heads.cur, panic |-> h.panic,
     obs |-> [raw_l |-> h.heads.raw_l, raw_r |-> h.heads.raw_r,
              mod_l |-> h.heads.mod_l, mod_r |-> h.heads.mod_r,
              read_l |-> h.heads.read_l, read_r |-> h.heads.read_r,
              tap_l |-> h.tap_l, tap_r |-> h.tap_r]]
    : r \in {process_delay_channel(buffer[idx + 1][2], h.tap_r, lp_state_r, l.seed,
               crackle_integrator_r, crackle_hp_r, h.cutoff_r, tc.crackle_threshold,
               h.gc.noise_amt, h.gc.crackle_amt, h.feedback_gain, d.ret, fparams.gain,
               h.gc.makeup_gain, h.mix_amt)}})
    : l \in {process_delay_channel(buffer[idx + 1][1], h.tap_l, lp_state_l, d.seed,
               crackle_integrator_l, crackle_hp_l, h.cutoff_l, tc.crackle_threshold,
               h.gc.noise_amt, h.gc.crackle_amt, h.feedback_gain, d.ret, fparams.gain,
               h.gc.makeup_gain, h.mix_amt)}})
    : h \in {The({
        [phase |-> phase, heads |-> heads, panic |-> delay_buffer_l.len = 0,
         mix_amt |-> IF loc.is_distortion_mode THEN 0 ELSE fparams.mix,
         feedback_gain |-> IF loc.is_distortion_mode THEN 0
                           ELSE (fparams.feedback * 1200) \div sqrt_milli(fparams.gain),
         gc |-> calculate_gain_compensation(fparams.gain, tc.noise_amount,
                                            tc.crackle_amount, fparams.noise, fparams.crackle),
         \* tone_spread = width * 0.15
         cutoff_l |-> Max(tc.current_tone_cutoff - (loc.width_amt * 150) \div 1000, 100),
         cutoff_r |-> Min(tc.current_tone_cutoff + (loc.width_amt * 150) \div 1000, 950),
         tap_l |-> tape_read(delay_buffer_l, heads.read_l, write_pos, buffer[idx + 1][1]),
         tap_r |-> tape_read(delay_buffer_r, heads.read_r, write_pos, buffer[idx + 1][2])]
        : heads \in {DelayHeads(phase, loc.width_amt, loc.target, delay_buffer_l.len = 0)}})
        : phase \in {update_lfo_phase(lfo_phase, tc.flutter_rate)}}})
    : tc \in {calculate_tape_constants(sample_rate, block_flag(loc.is_broken, broken_tape))},
      d \in {update_dropout_smoother(block_flag(loc.is_broken, broken_tape), dropout_smoother, dropout_timer,
                                     rng_seed, sample_rate)}})

ProcessSample ==
  /\ pc \in {"dist", "delay"}
  /\ idx < Len(buffer)
  /\ \E s \in {IF pc = "dist" THEN DirectSample ELSE DelaySample} :
         /\ lfo_phase' = s.lfo_phase
         /\ current_delay_samples' = s.cur
         /\ dropout_smoother' = s.d.smoother
         /\ dropout_timer' = s.d.timer
         /\ lp_state_l' = s.l.lp_state
         /\ crackle_integrator_l' = s.l.crackle_integrator
         /\ crackle_hp_l' = s.l.crackle_hp
         /\ lp_state_r' = s.r.lp_state
         /\ crackle_integrator_r' = s.r.crackle_integrator
         /\ crackle_hp_r' = s.r.crackle_hp
         /\ rng_seed' = s.r.seed
         /\ delay_buffer_l' = s.buf_l
         /\ delay_buffer_r' = s.buf_r
         /\ write_pos' = s.write_pos
         /\ buffer' = [buffer EXCEPT ![idx + 1] = <<s.l.out, s.r.out>>]
         /\ loc' = [loc EXCEPT !.max_l = Max(@, Abs(s.l.out)), !.max_r = Max(@, Abs(s.r.out))]
         /\ pc' = IF s.panic THEN "panic" ELSE pc
         /\ h_smp' = [mode |-> pc,
                      draws |-> [i \in 1..Len(s.d.draws) |-> [s.d.draws[i] EXCEPT !.k = "dropout"]]
                                \o [i \in 1..Len(s.l.draws) |-> [ch |-> "L"] @@ s.l.draws[i]]
                                \o [i \in 1..Len(s.r.draws) |-> [ch |-> "R"] @@ s.r.draws[i]],
                      is_broken |-> block_flag(loc.is_broken, broken_tape),
                      raw_l |-> s.obs.raw_l, raw_r |-> s.obs.raw_r,
                      mod_l |-> s.obs.mod_l, mod_r |-> s.obs.mod_r,
                      read_l |-> s.obs.read_l, read_r |-> s.obs.read_r,
                      wp |-> write_pos, len |-> delay_buffer_l.len,
                      tap_l |-> s.obs.tap_l, tap_r |-> s.obs.tap_r,
                      in |-> s.in, out |-> <<s.l.out, s.r.out>>,
                      vol |-> s.d.ret, smoother0 |-> dropout_smoother,
                      timer0 |-> dropout_timer, seed0 |-> rng_seed,
                      prev_phase |-> lfo_phase,
                      target |-> s.d.target, started |-> s.d.started,
                      gain |-> fparams.gain, makeup |-> s.gc.makeup_gain,
                      noise_amt |-> s.gc.noise_amt, crackle_amt |-> s.gc.crackle_amt,
                      cur0 |-> current_delay_samples,
                      rec |-> IF pc = "delay" THEN <<s.l.rec, s.r.rec>> ELSE <<0, 0>>,
                      old |-> <<vec_get(delay_buffer_l, write_pos),
                                vec_get(delay_buffer_r, write_pos)>>]
  /\ idx' = idx + 1
  /\ UNCHANGED <<paramVars, meterVars, sample_rate, meter_decay_per_sample,
                 was_distortion_mode, h_in, h_prev, h_blocks, h_call>>

\* lines 422-432 and 633-643: the meters, then return
ProcessEnd ==
  /\ pc \in {"dist", "delay"}
  /\ idx = Len(buffer)
  /\ \E m \in {update_peak_meters(editor_open, Len(buffer), meter_decay_per_sample,
                                  peak_meter_l, peak_meter_r, loc.max_l, loc.max_r)} :
         /\ peak_meter_l' = m[1]
         /\ peak_meter_r' = m[2]
  /\ pc' = "idle"
  /\ h_blocks' = h_blocks + 1
  /\ UNCHANGED <<paramVars, bufVars, dspVars, sample_rate, meter_decay_per_sample,
                 was_distortion_mode, buffer, idx, loc, h_in, h_prev, h_smp, h_call>>

(***************************************************************************)
(* Specifications.  Every one runs the same actions; they differ in the    *)
(* inputs the host and the control thread are given, so that each state    *)
(* space stays small enough to be searched completely.                     *)
(***************************************************************************)
\* a process() call may start while fewer than n calls have started
CallsBelow(n) == h_blocks + (IF pc = "idle" THEN 0 ELSE 1) < n

WideFloatParams ==
  [gain |-> 4000, delay_time_ms |-> 1500, feedback |-> 1000, mix |-> 1000,
   noise |-> 0, crackle |-> 1000, stereo_width |-> 1000]
Silence == <<0, 0>>
Loud == <<FP, -(FP \div 2)>>

(***************************************************************************)
(* Spec: mode switching and the delay line.  A 3 Hz engine has 6-sample    *)
(* delay buffers; the control thread toggles distortion-only mode and      *)
(* switches between two presets at any moment; the host sends two-sample   *)
(* blocks, a loud sample and a silent one.                                 *)
(***************************************************************************)
MaxBlocks == 3

Init == InitWith({<<0, 12345>>})

Next ==
  \/ \E v \in BOOLEAN : SetDistortionMode(v)
  \/ \E p \in {DefaultFloatParams, WideFloatParams} : SetFloatParams(p)
  \/ Initialize(3)
  \/ CallsBelow(MaxBlocks) /\ ProcessBegin(<<Loud, Silence>>, 0)
  \/ ProcessSample
  \/ ProcessEnd

Spec == Init /\ [][Next]_vars

(***************************************************************************)
(* SpecTape: the modulation and noise sources.  Engines at 3 Hz and 100 Hz *)
(* (and at the default 44100 Hz before initialize), broken-tape and        *)
(* distortion-only mode toggled at any moment, the preset moved once from  *)
(* the default to full stereo width.  The generator has full period (c odd,*)
(* a = 1 mod 4), so the seed of a running engine can be any value: besides *)
(* 12345 the engine starts from 1475100461, whose next draw starts a       *)
(* dropout and whose third draw is a crackle at 100 Hz.                    *)
(***************************************************************************)
MaxTapeBlocks == 2
TapeSeeds == {<<0, 12345>>, <<22508, 16173>>}
TapeRates == {3, 100}

InitTape == InitWith(TapeSeeds)

NextTape ==
  \/ \E v \in BOOLEAN : SetDistortionMode(v)
  \/ \E v \in BOOLEAN : SetBrokenTape(v)
  \/ SetFloatParams(WideFloatParams)
  \/ \E sr \in TapeRates : Initialize(sr)
  \/ CallsBelow(MaxTapeBlocks) /\ ProcessBegin(<<Loud, Silence>>, 0)
  \/ ProcessSample
  \/ ProcessEnd

SpecTape == InitTape /\ [][NextTape]_vars

(***************************************************************************)
(* SpecLong: one session at the default 44100 Hz (88200-sample buffers).   *)
(* The host initializes, the user dials tempo sync "2 Bar" at full stereo  *)
(* width with the noise sources off, and the host then streams silent      *)
(* 64-sample blocks with no tempo (120 bpm): the smoothed delay length     *)
(* creeps from 0 towards the clamped target of 88100 samples.              *)
(***************************************************************************)
MaxLongBlocks == 180
LongBlockLen == 64
LongFloatParams ==
  [gain |-> 1000, delay_time_ms |-> 1500, feedback |-> 300, mix |-> 300,
   noise |-> 0, crackle |-> 0, stereo_width |-> 1000]
LongBlock == [i \in 1..LongBlockLen |-> Silence]

InitLong == InitWith({<<0, 12345>>})

NextLong ==
  \/ SetFloatParams(LongFloatParams)
  \/ Initialize(44100)
  \/ /\ CallsBelow(MaxLongBlocks)
     /\ fparams = LongFloatParams
     /\ delay_buffer_l.len > 0
     /\ ProcessBegin(LongBlock, 0)
  \/ ProcessSample
  \/ ProcessEnd

SpecLong == InitLong /\ [][NextLong]_vars

(***************************************************************************)
(* Properties of mode switching and of the delay line, checked under Spec. *)
(***************************************************************************)
IsEmpty(v) == DOMAIN v.nz = {}

\* a step that processes one sample (one iteration of either loop)
SampleStep == pc \in {"dist", "delay"} /\ idx' = idx + 1

\* a step that calls process()
BeginStep == pc = "idle" /\ (pc' # "idle" \/ h_blocks' = h_blocks + 1)

\* C1: when a block processed in delay mode immediately follows a block processed
\* in distortion-only mode, every sample of both delay buffers is 0.0 before the
\* block's first delay-buffer read (the state in which the block's loop starts).
C1_ClearedBeforeFirstRead ==
  (pc = "delay" /\ idx = 0 /\ h_prev.was) => (IsEmpty(delay_buffer_l) /\ IsEmpty(delay_buffer_r))

\* C1 witness: such a block starts with buffers that held echoes before the call
C1_Witness ==
  /\ pc = "delay" /\ idx = 0 /\ h_prev.was
  /\ ~IsEmpty(h_prev.buf_l) /\ ~IsEmpty(h_prev.buf_r)
  /\ IsEmpty(delay_buffer_l) /\ IsEmpty(delay_buffer_r)

\* the engine fields the zero-length contract names: cursor, LFO phase, seed,
\* filter states and peak meters
guardedVars == <<write_pos, lfo_phase, rng_seed, lp_state_l, lp_state_r,
                 crackle_integrator_l, crackle_integrator_r, crackle_hp_l, crackle_hp_r,
                 peak_meter_l, peak_meter_r>>

\* C4 (as stated): with delay buffers of length 0 a process block is a no-op in
\* every mode: no step of the block modifies the audio samples, the write cursor,
\* the LFO phase, the seed, the filter states or the peak meters, and no remainder
\* by the zero length is taken.
C4_NoOpInEveryMode ==
  [][/\ pc' # "panic"
     /\ (delay_buffer_l.len = 0 /\ pc # "idle") => (buffer' = buffer /\ UNCHANGED guardedVars)
     /\ (delay_buffer_l.len = 0 /\ BeginStep) => (buffer' = h_in' /\ UNCHANGED guardedVars)]_vars

\* C4 (amended): with delay buffers of length 0 a block processed in delay mode is
\* a no-op: the call returns before its loop with the audio samples, the write
\* cursor, the LFO phase, the seed, the filter states and the peak meters as they
\* were; a block processed in distortion-only mode is processed as with any other
\* length; and in no mode is a remainder by the zero length taken.
C4_DelayModeNoOp ==
  [][/\ pc' # "panic"
     /\ (delay_buffer_l.len = 0 /\ BeginStep /\ ~distortion_mode)
          => (pc' = "idle" /\ buffer' = h_in' /\ UNCHANGED guardedVars)
     /\ (delay_buffer_l.len = 0 /\ BeginStep /\ distortion_mode) => pc' = "dist"]_vars

\* C4 witness: a delay-mode call on an engine that was never initialized has
\* returned, after earlier samples had moved the LFO phase and the seed
C4_Witness ==
  /\ pc = "idle" /\ h_blocks >= 2 /\ delay_buffer_l.len = 0
  /\ ~loc.is_distortion_mode /\ h_in # <<>> /\ buffer = h_in
  /\ h_smp.mode = "none" /\ lfo_phase # 0 /\ rng_seed = h_prev.seed /\ lfo_phase = h_prev.lfo

\* the current preset with every delay-only parameter moved
DelayParamsMoved(p) ==
  [p EXCEPT !.mix = 1000 - @, !.feedback = 1000 - @, !.delay_time_ms = 1501 - @,
            !.stereo_width = 1000 - @]

\* a delay line unlike any the engine holds
OtherLine == vec_set(vec_set(vec_zeros(6), 0, FP), 5, -FP)

\* C5: a block processed in distortion-only mode leaves both delay buffers, the
\* write cursor and the smoothed delay length as they were, from the call through
\* every sample to the return; and each sample it puts out (with the engine state
\* it leaves) is the one it would put out with other delay-buffer contents, cursor,
\* smoothed length, mix, feedback, delay time and stereo width.
C5_DistortionLeavesDelayLine ==
  /\ [][(pc = "dist" \/ pc' = "dist")
          => UNCHANGED <<delay_buffer_l, delay_buffer_r, write_pos, current_delay_samples>>]_vars
  /\ [](pc = "dist" /\ idx < Len(buffer)
          => \E s \in {DirectSample} :
             \E t \in {DirectSampleOf(DelayParamsMoved(fparams), OtherLine, OtherLine, 3, 7 * DFP)} :
                /\ s.l.out = t.l.out /\ s.r.out = t.r.out
                /\ s.l.lp_state = t.l.lp_state /\ s.r.lp_state = t.r.lp_state
                /\ s.r.seed = t.r.seed /\ s.lfo_phase = t.lfo_phase /\ s.d = t.d)

\* C5 witness: a distortion-only block has processed a non-silent sample while both
\* delay buffers held echoes and the cursor and the smoothed length were not 0
C5_Witness ==
  /\ pc = "dist" /\ idx = Len(buffer) /\ h_smp.mode = "dist" /\ h_smp.out[1] # 0
  /\ ~IsEmpty(delay_buffer_l) /\ ~IsEmpty(delay_buffer_r)
  /\ delay_buffer_l = h_prev.buf_l /\ delay_buffer_r = h_prev.buf_r
  /\ write_pos # 0 /\ current_delay_samples # 0

\* C6 (as stated): every sample processed, in delay mode and in distortion-only
\* mode alike, advances the write cursor by 1, wrapping to 0 at the capacity.
C6_EverySampleAdvances ==
  [][SampleStep => write_pos' = (IF write_pos + 1 >= delay_buffer_l.len THEN 0 ELSE write_pos + 1)]_vars

\* C6 (amended): every sample processed in delay mode sets the write cursor to
\* (cursor + 1) mod capacity and changes no cell of either buffer other than the
\* one at the cursor's position before the step; a sample processed in
\* distortion-only mode leaves the cursor where it was.
C6_DelaySamplesAdvance ==
  [][SampleStep =>
       IF pc = "delay"
       THEN /\ write_pos' = (write_pos + 1) % delay_buffer_l.len
            /\ \A i \in 0..(delay_buffer_l.len - 1) :
                 i # write_pos => /\ vec_get(delay_buffer_l', i) = vec_get(delay_buffer_l, i)
                                  /\ vec_get(delay_buffer_r', i) = vec_get(delay_buffer_r, i)
       ELSE write_pos' = write_pos]_vars

\* C6 witness: a distortion-only sample has been processed with the cursor in the
\* middle of the buffer, where the delay-mode samples before it left it
C6_Witness ==
  /\ h_smp.mode = "dist" /\ h_smp.wp > 0 /\ write_pos = h_smp.wp
  /\ h_smp.len > 0

(***************************************************************************)
(* Properties of the modulation and noise sources, checked under SpecTape. *)
(***************************************************************************)
\* C3: in delay mode the modulated delay length of the left and of the right
\* channel is never negative, whatever the stereo width, the LFO phase and the
\* smoothed delay length (a buffer shorter than 100 samples makes it negative),
\* and both read positions lie inside the buffer.
C3_ModDelayNeverNegative ==
  h_smp.mode = "delay" =>
    /\ h_smp.mod_l >= 0 /\ h_smp.mod_r >= 0
    /\ h_smp.mod_l >= h_smp.raw_l /\ h_smp.mod_r >= h_smp.raw_r
    /\ h_smp.read_l >= 0 /\ h_smp.read_l < h_smp.len * DFP
    /\ h_smp.read_r >= 0 /\ h_smp.read_r < h_smp.len * DFP

\* C3 witness: at full width, with a negative smoothed length, both unclamped
\* lengths were negative and both channels read at delay 0
C3_Witness ==
  /\ h_smp.mode = "delay" /\ loc.width_amt = 1000 /\ current_delay_samples < 0
  /\ h_smp.raw_l < 0 /\ h_smp.raw_r < 0 /\ h_smp.mod_l = 0 /\ h_smp.mod_r = 0

\* C7 (as stated): the LFO phase lies in [0, 2*pi), the value 2*pi never being
\* held, and only the per-sample advance changes it.
C7_PhaseHalfOpen ==
  /\ [](0 <= lfo_phase /\ lfo_phase < TwoPi)
  /\ [][lfo_phase' # lfo_phase => SampleStep]_vars

\* C7 (amended): the LFO phase lies in the closed interval [0, 2*pi] (the wrap
\* subtracts 2*pi only from a phase greater than 2*pi, so 2*pi itself is held when
\* the increments sum to it), and only the per-sample advance changes it.
C7_PhaseClosed ==
  /\ [](0 <= lfo_phase /\ lfo_phase <= TwoPi)
  /\ [][lfo_phase' # lfo_phase => SampleStep]_vars

\* C7 witness: the phase is exactly 2*pi after a sample that advanced it from pi
C7_Witness ==
  h_smp.mode # "none" /\ lfo_phase = TwoPi /\ h_smp.prev_phase = TwoPi \div 2

\* (seed * 1664525 + 1013904223) mod 2^32 computed digit by digit: the multiplier is
\* 19660D in base 16, and x * m = ((((x*1*16 + x*9)*16 + x*6)*16 + x*6)*16 + x*0)*16 + x*13
AddPair(a, b) ==
  LET lo == a[2] + b[2]
  IN  <<(a[1] + b[1] + (lo \div W16)) % W16, lo % W16>>

MulSmall(a, c) == <<(a[1] * c + ((a[2] * c) \div W16)) % W16, (a[2] * c) % W16>>

RECURSIVE Horner(_, _, _)
Horner(acc, x, digits) ==
  IF digits = <<>> THEN acc
  ELSE Horner(AddPair(MulSmall(acc, 16), MulSmall(x, Head(digits))), x, Tail(digits))

LcgRef(seed) == AddPair(Horner(<<0, 0>>, seed, <<1, 9, 6, 6, 0, 13>>), <<15470, 62303>>)

\* the generator's sequence from 12345: 87628868, 71072467, 2332836374, 2726892157,
\* 3908547000, 483019191, 2129828778, 2355140353
KnownSeeds ==
  <<<<0, 12345>>, <<1337, 7236>>, <<1084, 31443>>, <<35596, 16918>>, <<41609, 4733>>,
    <<59639, 45496>>, <<7370, 18871>>, <<32498, 39850>>, <<35936, 38657>>>>

\* the draws of the last sample form one chain from the seed before it to the seed now
DrawsChained ==
  LET ds == h_smp.draws
  IN  /\ Len(ds) > 0
      /\ ds[1].from = h_smp.seed0
      /\ \A i \in 1..(Len(ds) - 1) : ds[i + 1].from = ds[i].to
      /\ ds[Len(ds)].to = rng_seed

\* C8: every draw of get_noise and get_crackle replaces the seed by
\* (seed * 1664525 + 1013904223) mod 2^32, a function of the seed alone: the seeds
\* after a sample are those of the generator iterated once per draw from the seed
\* before it, the same in every run (from 12345 they are the known sequence), and
\* nothing but a draw changes the seed.
C8_SeedSequence ==
  /\ [](h_smp.mode # "none" =>
          /\ DrawsChained
          /\ \A i \in 1..Len(h_smp.draws) :
               /\ h_smp.draws[i].to = LcgRef(h_smp.draws[i].from)
               /\ \A j \in 1..(Len(KnownSeeds) - 1) :
                    h_smp.draws[i].from = KnownSeeds[j] => h_smp.draws[i].to = KnownSeeds[j + 1])
  /\ [][rng_seed' # rng_seed => SampleStep]_vars

\* C8 witness: the second sample of an engine seeded 12345 has drawn; its draws
\* continue the known sequence where the first sample left it
C8_Witness ==
  /\ h_smp.mode # "none" /\ Len(h_smp.draws) >= 5
  /\ \E j \in 4..(Len(KnownSeeds) - 1) :
       h_smp.seed0 = KnownSeeds[j] /\ h_smp.draws[1].to = KnownSeeds[j + 1]

\* who made a draw and which draw it was
Tag(d) == <<IF "ch" \in DOMAIN d THEN d.ch ELSE "-", d.k>>

\* the draws of one channel: noise, magnitude, and polarity when asked for
ChannelDraws(ch, with_pol) ==
  <<<<ch, "noise">>, <<ch, "mag">>>> \o (IF with_pol THEN <<<<ch, "pol">>>> ELSE <<>>)

\* the magnitude draw of channel ch in the last sample exceeded the threshold
Exceeded(ch) ==
  \E i \in 1..Len(h_smp.draws) :
    /\ Tag(h_smp.draws[i]) = <<ch, "mag">>
    /\ Gt32(u32_as_f32(h_smp.draws[i].to),
            calculate_tape_constants(sample_rate, h_smp.is_broken).crackle_threshold)

\* C9: within each processed sample, in delay mode and in distortion-only mode, the
\* one seed is advanced in this order: the dropout draw (exactly when broken-tape
\* is on), the left noise draw, the left magnitude draw, the left polarity draw
\* (exactly when the left magnitude exceeded the threshold), then the right noise,
\* magnitude and conditional polarity draws; each draw starts from the seed the
\* draw before it left.
C9_DrawOrder ==
  (h_smp.mode # "none" /\ pc # "idle") =>
    /\ DrawsChained
    /\ [i \in 1..Len(h_smp.draws) |-> Tag(h_smp.draws[i])]
         = (IF h_smp.is_broken THEN <<<<"-", "dropout">>>> ELSE <<>>)
           \o ChannelDraws("L", Exceeded("L")) \o ChannelDraws("R", Exceeded("R"))

\* C9 witness: a sample with broken tape on whose left magnitude exceeded the
\* threshold and whose right one did not: five draws before the first right one
C9_Witness ==
  /\ h_smp.mode # "none" /\ pc # "idle" /\ h_smp.is_broken
  /\ Exceeded("L") /\ ~Exceeded("R") /\ Len(h_smp.draws) = 6

\* C10: whenever update_dropout_smoother runs with broken-tape off, the health is
\* 1.0 and the timer 0 afterwards and the returned volume is 1.0, whatever they
\* were before, and the sample's first draw is the left noise draw, made from the
\* seed the sample started with.
C10_OffPinsHealth ==
  (h_smp.mode # "none" /\ ~h_smp.is_broken) =>
    /\ dropout_smoother = FP /\ dropout_timer = 0 /\ h_smp.vol = FP
    /\ Tag(h_smp.draws[1]) = <<"L", "noise">>
    /\ h_smp.draws[1].from = h_smp.seed0

\* C10 witness: broken-tape went off while a dropout was in progress
C10_Witness ==
  /\ h_smp.mode # "none" /\ ~h_smp.is_broken
  /\ h_smp.timer0 > 0 /\ h_smp.smoother0 < FP
  /\ dropout_smoother = FP /\ dropout_timer = 0

(***************************************************************************)
(* The safety clamp of the target delay, checked under SpecLong.           *)
(***************************************************************************)
\* C2: with the target clamped to the buffer length minus 100 samples, the
\* modulated delay length of each channel (smoothed length, flutter, stereo skew)
\* stays within the buffer, so that the read position never wraps around past the
\* write cursor: it is at most the buffer length.
C2_ModDelayWithinBuffer ==
  h_smp.mode = "delay" =>
    /\ h_smp.mod_l <= h_smp.len * DFP
    /\ h_smp.mod_r <= h_smp.len * DFP

\* C2 witness: the clamp is in force (the raw target is beyond the buffer) and the
\* right channel's modulated delay is longer than the buffer
C2_Witness ==
  /\ h_smp.mode = "delay" /\ loc.raw_target > h_smp.len * DFP
  /\ loc.target = (h_smp.len - 100) * DFP
  /\ current_delay_samples < loc.target
  /\ h_smp.mod_r > h_smp.len * DFP

(***************************************************************************)
(* SpecMeter: the peak-meter feed on its own.  What a block hands to        *)
(* update_peak_meters is its length and the largest absolute output of      *)
(* each channel (lines 422-430 and 633-641), so the host's blocks are       *)
(* drawn as exactly that: a length and a pair of maxima, some of them       *)
(* below the 0.001 floor.  The editor opens and closes at any moment, the   *)
(* host initializes a 3 Hz engine (decay 0.31623 per sample) at any         *)
(* moment, and it keeps calling process(): the feed is weakly fair.         *)
(***************************************************************************)
MaxMeterBlockLen == 2
MeterRates == {3}
MeterLevels ==
  {<<0, 0>>, <<1, 0>>, <<9, FP>>, <<10, 11>>, <<2 * FP, FP \div 2>>}

\* the part of process() after the sample loop, for a block of n samples whose
\* largest absolute outputs are max_amplitude_l and max_amplitude_r
MeterBlock(n, max_amplitude_l, max_amplitude_r) ==
  /\ pc = "idle"
  /\ \E m \in {update_peak_meters(editor_open, n, meter_decay_per_sample,
                                  peak_meter_l, peak_meter_r, max_amplitude_l, max_amplitude_r)} :
         /\ peak_meter_l' = m[1]
         /\ peak_meter_r' = m[2]
  /\ idx' = n
  /\ loc' = [NoLocals EXCEPT !.max_l = max_amplitude_l, !.max_r = max_amplitude_r]
  /\ h_prev' = Snapshot
  /\ UNCHANGED <<paramVars, bufVars, dspVars, sample_rate, meter_decay_per_sample,
                 was_distortion_mode, pc, buffer, h_in, h_smp, h_blocks, h_call>>

MeterFeed == \E n \in 1..MaxMeterBlockLen : \E a \in MeterLevels : MeterBlock(n, a[1], a[2])

InitMeter == InitWith({<<0, 12345>>})

NextMeter ==
  \/ \E v \in BOOLEAN : SetEditorOpen(v)
  \/ \E sr \in MeterRates : Initialize(sr)
  \/ MeterFeed

SpecMeter == InitMeter /\ [][NextMeter]_vars /\ WF_vars(MeterFeed)

(***************************************************************************)
(* Properties of the peak meters, checked under SpecMeter.                  *)
(***************************************************************************)
\* the 0.001 below which a stored peak is replaced by 0
MeterFloor == FP \div 1000

\* one meter's attack: a block maximum above the stored peak is stored as it is
Attacks(peak, max_amplitude, peak_after) == max_amplitude > peak => peak_after = max_amplitude

\* C11 (as stated): with the editor open, for every amplitude A > 0, including
\* A below 0.001, and every stored peak smaller than A, one block whose largest
\* absolute output is A leaves the stored peak equal to A.
C11_AttackEveryAmplitude ==
  [][(MeterFeed /\ editor_open) =>
       /\ Attacks(peak_meter_l, loc'.max_l, peak_meter_l')
       /\ Attacks(peak_meter_r, loc'.max_r, peak_meter_r')]_vars

\* C11 (amended): with the editor open, for every amplitude A >= 0.001 and every
\* stored peak smaller than A, one block whose largest absolute output is A
\* leaves the stored peak equal to A; a block whose largest output A is below
\* 0.001 and above the stored peak leaves the stored peak 0.
C11_AttackAboveFloor ==
  [][(MeterFeed /\ editor_open) =>
       /\ loc'.max_l >= MeterFloor => Attacks(peak_meter_l, loc'.max_l, peak_meter_l')
       /\ loc'.max_r >= MeterFloor => Attacks(peak_meter_r, loc'.max_r, peak_meter_r')
       /\ (loc'.max_l < MeterFloor /\ loc'.max_l > peak_meter_l) => peak_meter_l' = 0
       /\ (loc'.max_r < MeterFloor /\ loc'.max_r > peak_meter_r) => peak_meter_r' = 0]_vars

\* C11 witness: a block attacked both meters from non-zero peaks below its maxima
C11_Witness ==
  /\ editor_open
  /\ 0 < h_prev.peak_l /\ h_prev.peak_l < loc.max_l /\ peak_meter_l = loc.max_l
  /\ 0 < h_prev.peak_r /\ h_prev.peak_r < loc.max_r /\ peak_meter_r = loc.max_r

\* a stored peak is 0 or at least 0.001
StoredPeak(peak) == peak = 0 \/ peak >= MeterFloor

\* the stored peak after n samples of decay, before the floor is applied
Decayed(peak, n) == MulDiv(peak, powf_cfp(meter_decay_per_sample, n), CFP)

\* one meter's release over a silent block of n samples: the peak does not
\* increase, and it is 0 exactly when the decayed value is below the floor
Releases(peak, n, peak_after) ==
  /\ peak_after <= peak
  /\ peak_after = 0 <=> Decayed(peak, n) < MeterFloor
  /\ peak_after # 0 => peak_after = Decayed(peak, n)

\* the host sends silence to an initialized engine whose editor is open
SilentFeed ==
  editor_open /\ meter_decay_per_sample < CFP /\ loc.max_l = 0 /\ loc.max_r = 0

\* C12: with the editor open and the per-sample decay factor below 1, a block
\* whose maximum is 0 never increases the stored peak and sets it to 0 in the
\* first block where the decayed value falls below 0.001; once every block is
\* silent the stored peaks eventually are exactly 0 and stay 0; and a stored peak is
\* always either 0 or at least 0.001.
C12_Release ==
  /\ [](StoredPeak(peak_meter_l) /\ StoredPeak(peak_meter_r))
  /\ [][(MeterFeed /\ editor_open /\ meter_decay_per_sample < CFP) =>
          /\ loc'.max_l = 0 => Releases(peak_meter_l, idx', peak_meter_l')
          /\ loc'.max_r = 0 => Releases(peak_meter_r, idx', peak_meter_r')]_vars
  /\ (<>[]SilentFeed) => <>[](peak_meter_l = 0 /\ peak_meter_r = 0)

\* C12 witness: a silent block took both meters from a positive peak to exactly 0
C12_Witness ==
  /\ SilentFeed
  /\ h_prev.peak_l >= MeterFloor /\ peak_meter_l = 0
  /\ h_prev.peak_r >= MeterFloor /\ peak_meter_r = 0

(***************************************************************************)
(* SpecEditor: the engine with an editor that opens and closes at any       *)
(* moment, between blocks and while a block is processed.  A 3 Hz engine,   *)
(* distortion-only mode toggled at any moment, two-sample blocks.           *)
(***************************************************************************)
MaxEditorBlocks == 3

InitEditor == InitWith({<<0, 12345>>})

NextEditor ==
  \/ \E v \in BOOLEAN : SetEditorOpen(v)
  \/ \E v \in BOOLEAN : SetDistortionMode(v)
  \/ Initialize(3)
  \/ CallsBelow(MaxEditorBlocks) /\ ProcessBegin(<<Loud, Silence>>, 0)
  \/ ProcessSample
  \/ ProcessEnd

SpecEditor == InitEditor /\ [][NextEditor]_vars

\* a step that ends a block after its sample loop
EndStep == pc \in {"dist", "delay"} /\ pc' = "idle"

\* C13: the peak meters are updated after a block only if the editor reports
\* itself open: while the editor is closed no step, and so no process block in
\* either mode, changes a stored peak, whatever the block's output amplitude;
\* and a stored peak changes only in the step that ends a block.
C13_ClosedEditorKeepsPeaks ==
  [][/\ ~editor_open => UNCHANGED meterVars
     /\ ~(UNCHANGED meterVars) => (EndStep /\ editor_open)]_vars

\* C13 witness: a block louder than the stored peaks has ended with the editor
\* closed, and the peaks are the non-zero ones from before the block
C13_Witness ==
  /\ pc = "idle" /\ h_blocks > 0 /\ ~editor_open
  /\ peak_meter_l > 0 /\ loc.max_l > peak_meter_l /\ peak_meter_l = h_prev.peak_l
  /\ peak_meter_r > 0 /\ loc.max_r > peak_meter_r /\ peak_meter_r = h_prev.peak_r

(***************************************************************************)
(* SpecSync: the tempo-sync quantizer on its own.  get_beat_info is a free  *)
(* function (the editor calls it to label the knob, process() to find the   *)
(* multiplier); it is called with knob positions num / den on the grid of   *)
(* half steps (den = 36, which holds the 18 equal steps k/18 = 2k/36), from *)
(* SyncOver whole turns below 0 to SyncOver whole turns above 1, in any     *)
(* order.                                                                   *)
(***************************************************************************)
SyncOver == 1
SyncGrid == 2 * NUM_SYNC_STEPS
SyncInputs ==
  {<<num, SyncGrid>> : num \in (-(SyncOver * SyncGrid))..((1 + SyncOver) * SyncGrid)}

\* one call get_beat_info(num / den); the result is kept with the step index
CallGetBeatInfo(num, den) ==
  /\ h_call' = [fn |-> "get_beat_info", args |-> <<num, den>>,
                out |-> <<normalized_to_sync_step(num, den)>> \o get_beat_info(num, den),
                prev_args |-> IF h_call.fn = "get_beat_info" THEN h_call.args ELSE <<>>,
                prev_out |-> IF h_call.fn = "get_beat_info" THEN h_call.out ELSE <<>>]
  /\ UNCHANGED <<paramVars, bufVars, dspVars, meterVars, sample_rate, meter_decay_per_sample,
                 was_distortion_mode, procVars, h_in, h_prev, h_smp, h_blocks>>

InitSync == InitWith({<<0, 12345>>})

NextSync == \E a \in SyncInputs : CallGetBeatInfo(a[1], a[2])

SpecSync == InitSync /\ [][NextSync]_vars

(***************************************************************************)
(* Properties of the tempo-sync quantizer, checked under SpecSync.          *)
(***************************************************************************)
\* the 18 arms of the match in get_beat_info, in the order of the source
BeatEntries ==
  << <<625, "1/64">>, <<1250, "1/32">>, <<1667, "1/16 T">>, <<1875, "1/32 .">>,
     <<2500, "1/16">>, <<3333, "1/8 T">>, <<3750, "1/16 .">>, <<5000, "1/8">>,
     <<6667, "1/4 T">>, <<7500, "1/8 .">>, <<10000, "1/4">>, <<13333, "1/2 T">>,
     <<15000, "1/4 .">>, <<20000, "1/2">>, <<26667, "1/1 T">>, <<30000, "1/2 .">>,
     <<40000, "1 Bar">>, <<80000, "2 Bar">> >>

\* k is clamp(floor(num / den * 18), 0, 17), said without a division
IsClampedFloor(k, num, den) ==
  /\ k \in 0..(NUM_SYNC_STEPS - 1)
  /\ k > 0 => k * den <= NUM_SYNC_STEPS * num
  /\ k < NUM_SYNC_STEPS - 1 => NUM_SYNC_STEPS * num < (k + 1) * den

\* C14: for every normalized input, below 0 and above 1 included, the step is
\* clamp(floor(normalized * 18), 0, 17), get_beat_info returns the table entry of
\* that step and never its fallback arm, input 0.0 yields (0.0625, "1/64") and
\* input 1.0 yields (8.0, "2 Bar").
C14_StepIsClampedFloor ==
  h_call.fn = "get_beat_info" =>
    /\ IsClampedFloor(h_call.out[1], h_call.args[1], h_call.args[2])
    /\ h_call.out[1] \in 0..(Len(BeatEntries) - 1)
    /\ <<h_call.out[2], h_call.out[3]>> = BeatEntries[h_call.out[1] + 1]
    /\ h_call.args[1] = 0 => <<h_call.out[2], h_call.out[3]>> = <<625, "1/64">>
    /\ h_call.args[1] = h_call.args[2] => <<h_call.out[2], h_call.out[3]>> = <<80000, "2 Bar">>

\* C14 witness: an input above 1 gave the last entry, the next one below 0 the first
C14_Witness ==
  /\ h_call.fn = "get_beat_info" /\ h_call.prev_args # <<>>
  /\ h_call.prev_args[1] > h_call.prev_args[2] /\ h_call.prev_out = <<17, 80000, "2 Bar">>
  /\ h_call.args[1] < 0 /\ h_call.out = <<0, 625, "1/64">>

\* the knob position num / den is the k-th of the 18 equal steps k/18
IsSweepStep(args, k) == args[1] * NUM_SYNC_STEPS = k * args[2]

\* C15: the 18 equal steps k/18, k = 0..17, select the 18 table entries one
\* each in index order (step k/18 selects entry k); the beat multiplier is
\* strictly increasing with the index, and of two knob positions the larger
\* never yields the shorter division.
C15_SweepSelectsEachEntry ==
  h_call.fn = "get_beat_info" =>
    /\ \A k \in 0..(NUM_SYNC_STEPS - 1) :
         IsSweepStep(h_call.args, k) =>
           /\ h_call.out[1] = k
           /\ <<h_call.out[2], h_call.out[3]>> = BeatEntries[k + 1]
    /\ h_call.prev_args # <<>> =>
         /\ h_call.prev_out[1] < h_call.out[1] => h_call.prev_out[2] < h_call.out[2]
         /\ h_call.prev_out[1] = h_call.out[1] => h_call.prev_out[2] = h_call.out[2]
         /\ h_call.prev_args[1] * h_call.args[2] <= h_call.args[1] * h_call.prev_args[2]
              => h_call.prev_out[2] <= h_call.out[2]

\* C15 witness: the sweep has gone from step 16/18 to step 17/18, from "1 Bar" to
\* "2 Bar"
C15_Witness ==
  /\ h_call.fn = "get_beat_info" /\ h_call.prev_args # <<>>
  /\ IsSweepStep(h_call.prev_args, 16) /\ h_call.prev_out = <<16, 40000, "1 Bar">>
  /\ IsSweepStep(h_call.args, 17) /\ h_call.out = <<17, 80000, "2 Bar">>

(***************************************************************************)
(* SpecTarget: the target delay length.  Engines at 100 Hz and 200 Hz (and  *)
(* at the default 44100 Hz before initialize), tempo sync switched on and   *)
(* off, the delay-time knob at both ends, at the default and on both sides  *)
(* of the first step boundary (83.28 ms above the minimum), a host that     *)
(* reports no tempo, 60 bpm or 100 bpm; one-sample blocks.  The settings     *)
(* change at any moment, before, within and after a block.                  *)
(***************************************************************************)
MaxTargetBlocks == 1
TargetRates == {100, 200}
TargetTempos == {0, 60, 100}
TargetTimes == {TIME_MS_MIN, 84, 85, 750, TIME_MS_MAX}
TargetPresets == {[DefaultFloatParams EXCEPT !.delay_time_ms = ms] : ms \in TargetTimes}

InitTarget == InitWith({<<0, 12345>>})

NextTarget ==
  \/ \E v \in BOOLEAN : SetTimeSync(v)
  \/ \E p \in TargetPresets : SetFloatParams(p)
  \/ \E sr \in TargetRates : Initialize(sr)
  \/ \E tempo \in TargetTempos : CallsBelow(MaxTargetBlocks) /\ ProcessBegin(<<Loud>>, tempo)
  \/ ProcessSample
  \/ ProcessEnd

SpecTarget == InitTarget /\ [][NextTarget]_vars

(***************************************************************************)
(* Properties of the target delay length, checked under SpecTarget.         *)
(***************************************************************************)
\* multiplier * (60 / bpm) * sample_rate in 1/DFP samples, for the table entry of
\* the knob position (ms - 1) / 1499; the multiplier is in 1/10000, and
\* 12 * sample_rate is a multiple of every bpm of TargetTempos
SyncedSamples(k, bpm, sr) == BeatEntries[k + 1][1] * ((12 * sr) \div bpm)

MaxInterpLen == 3
InterpSamples == {-FP, 0, FP}
InterpBuffers ==
  UNION {{[len |-> n, nz |-> [i \in {j \in 0..(n - 1) : s[j + 1] # 0} |-> s[i + 1]]]
          : s \in [1..n -> InterpSamples]} : n \in 0..MaxInterpLen}
InterpPositions ==
  {q * (DFP \div 4) : q \in (-(4 * (MaxInterpLen + 1)))..(8 * MaxInterpLen)}

\* the call linear_interpolate(v, position) (the source's read_pos) with the
\* arguments waiting in h_call; the result is kept with the two indices the call
\* reads (0 and 0 where it reads none or only buffer[0])
CallLinearInterpolate ==
  /\ h_call.fn = "pending"
  /\ \E v \in {h_call.args[1]} : \E position \in {h_call.args[2]} :
       h_call' = [h_call EXCEPT
                    !.fn = "linear_interpolate",
                    !.out = IF v.len < 2 THEN <<linear_interpolate(v, position), 0, 0>>
                            ELSE <<linear_interpolate(v, position),
                                   index_a(v.len, position \div DFP),
                                   index_b(v.len, index_a(v.len, position \div DFP))>>]
  /\ UNCHANGED <<paramVars, bufVars, dspVars, meterVars, sample_rate, meter_decay_per_sample,
                 was_distortion_mode, procVars, h_in, h_prev, h_smp, h_blocks>>

InitInterp ==
  /\ InitEngine({<<0, 12345>>})
  /\ h_call \in {[NoCall EXCEPT !.fn = "pending", !.args = <<v, position>>]
                  : v \in InterpBuffers, position \in InterpPositions}

NextInterp == CallLinearInterpolate

SpecInterp == InitInterp /\ [][NextInterp]_vars

(***************************************************************************)
(* Properties of linear_interpolate, checked under SpecInterp.              *)
(***************************************************************************)
\* the slot below a position, floor(position) mod len with the mathematical modulo
SlotBelow(len, position) == (position \div DFP) % len

\* the slot above it
SlotAbove(len, position) == ((position \div DFP) + 1) % len

\* position - floor(position), in 1/DFP
Weight(position) == position - (position \div DFP) * DFP

\* x lies between y and z, inclusive
Between(x, y, z) == Min(y, z) <= x /\ x <= Max(y, z)

C18_NeverFails ==
  h_call.fn = "linear_interpolate" =>
    LET v == h_call.args[1]
    IN  /\ v.len = 0 => h_call.out[1] = 0
        /\ v.len = 1 => h_call.out[1] = vec_get(v, 0)
        /\ v.len >= 2 => /\ 0 <= h_call.out[2] /\ h_call.out[2] < v.len
                         /\ 0 <= h_call.out[3] /\ h_call.out[3] < v.len

\* C18 witness: a call below 0 on a one-element buffer has returned the element
C18_Witness ==
  /\ h_call.fn = "linear_interpolate" /\ h_call.args[1].len = 1
  /\ h_call.args[2] < 0
  /\ vec_get(h_call.args[1], 0) = FP /\ h_call.out[1] = FP

MaxPureBlocks == 108
ImpulseAt == 106
PureFloatParams ==
  [gain |-> 1000, delay_time_ms |-> 500, feedback |-> 0, mix |-> 1000,
   noise |-> 0, crackle |-> 0, stereo_width |-> 0]
PureBlock(k) ==
  [i \in 1..LongBlockLen |-> IF k = ImpulseAt /\ i = 1 THEN <<FP, FP>> ELSE Silence]

InitPure == InitWith({<<0, 12345>>})

NextPure ==
  \/ SetFloatParams(PureFloatParams)
  \/ Initialize(100)
  \/ /\ CallsBelow(MaxPureBlocks)
     /\ fparams = PureFloatParams
     /\ delay_buffer_l.len > 0
     /\ ProcessBegin(PureBlock(h_blocks), 0)
  \/ ProcessSample
  \/ ProcessEnd

SpecPure == InitPure /\ [][NextPure]_vars

(***************************************************************************)
(* Properties of the unmodulated engine, checked under SpecPure.            *)
(***************************************************************************)
\* the last sample was processed in delay mode with noise, crackle, stereo width
\* and feedback 0, mix 1 and broken-tape off, the smoothed delay length within a
\* sample of the block's constant target
PureAndConverged ==
  /\ h_smp.mode = "delay" /\ ~h_smp.is_broken
  /\ fparams.noise = 0 /\ fparams.crackle = 0 /\ fparams.stereo_width = 0
  /\ fparams.feedback = 0 /\ fparams.mix = 1000
  /\ Abs(loc.target - current_delay_samples) < DFP

\* the ages, in samples, of the non-zero samples on the tape v when the last
\* sample was processed
Ages(v) == {(h_smp.wp - w) % v.len : w \in DOMAIN v.nz \ {h_smp.wp}}

\* every input on the tape that the output can show is within slack (in 1/DFP
\* samples) of the target delay
Reappears(v, out, slack) ==
  out # 0 => \A age \in Ages(v) : Abs(age * DFP - loc.target) <= slack

MaxFlagBlocks == 2
FlagTempo == 60
FlagRates == {3, 100}

InitFlags == InitWith({<<0, 12345>>})

NextFlags ==
  \/ \E v \in BOOLEAN : SetDistortionMode(v)
  \/ \E v \in BOOLEAN : SetBrokenTape(v)
  \/ \E v \in BOOLEAN : SetTimeSync(v)
  \/ \E sr \in FlagRates : Initialize(sr)
  \/ CallsBelow(MaxFlagBlocks) /\ ProcessBegin(<<Loud, Silence>>, FlagTempo)
  \/ ProcessSample
  \/ ProcessEnd

SpecFlags == InitFlags /\ [][NextFlags]_vars

\* what a block holds of the three flags from its start to its end
BlockFlags == <<loc.is_distortion_mode, loc.is_broken, loc.sync, loc.raw_target, loc.target>>

MaxDropoutBlocks == 2
DropoutSeeds == {<<0, 12345>>, <<23936, 18103>>, <<59133, 45580>>}

InitDropout == InitWith(DropoutSeeds)

NextDropout ==
  \/ \E v \in BOOLEAN : SetBrokenTape(v)
  \/ Initialize(100)
  \/ CallsBelow(MaxDropoutBlocks) /\ ProcessBegin(<<Loud, Silence>>, 0)
  \/ ProcessSample
  \/ ProcessEnd

SpecDropout == InitDropout /\ [][NextDropout]_vars

\* the magnitude drawn by the sample just processed exceeded 0.99995
DrewAboveThreshold == rand_exceeds(u32_as_f32(h_smp.draws[1].to))

\* C22: while broken-tape mode is on a dropout in progress is never restarted or
\* extended.  On every sample processed with broken-tape on: the timer is set exactly
\* when it was <= 0 and the drawn magnitude exceeds 0.99995, to between 5 ms and 20 ms
\* worth of samples (of which the same sample already takes 1); a timer that was > 0
\* is not set and is 1 lower after the sample; a timer that is not running is left
\* alone; and the target health is 0.3 exactly when the timer was running while the
\* target was chosen (it was > 0 before the sample, or was set by it), else 1.0.
C22_DropoutNotRestarted ==
  [][(SampleStep /\ h_smp'.is_broken) =>
       /\ h_smp'.started = (h_smp'.timer0 <= 0 /\ DrewAboveThreshold')
       /\ h_smp'.started =>
            /\ dropout_timer' + TFP >= (5 * (TFP \div 1000)) * sample_rate
            /\ dropout_timer' + TFP <= (20 * (TFP \div 1000)) * sample_rate
       /\ h_smp'.timer0 > 0 => (~h_smp'.started /\ dropout_timer' = h_smp'.timer0 - TFP)
       /\ (h_smp'.timer0 <= 0 /\ ~h_smp'.started) => dropout_timer' = h_smp'.timer0
       /\ h_smp'.target = (IF h_smp'.timer0 > 0 \/ h_smp'.started
                           THEN (3 * FP) \div 10 ELSE FP)
       /\ h_smp'.timer0 = dropout_timer]_vars

\* a sample drew a magnitude above the threshold while a dropout was in progress: the
\* timer was not set again, it went on counting down and ran out with this sample
C22_Witness ==
  /\ pc \in {"dist", "delay"} /\ idx = 2 /\ h_smp.is_broken /\ sample_rate = 100
  /\ h_smp.timer0 > 0 /\ DrewAboveThreshold /\ ~h_smp.started
  /\ h_smp.target = (3 * FP) \div 10
  /\ dropout_timer = h_smp.timer0 - TFP /\ dropout_timer <= 0


\* C23: the dropout health starts at 1.0, lies in [0, 1] in every reachable state,
\* whatever the sample rate, the broken-tape toggles and the draws, and the volume
\* every sample is scaled with is the health stored by that sample, clamped.
C23_HealthInUnitRange ==
  /\ dropout_smoother = FP
  /\ [](dropout_smoother >= 0 /\ dropout_smoother <= FP)
  /\ [][SampleStep => (h_smp'.vol = dropout_smoother'
                       /\ h_smp'.smoother0 = dropout_smoother)]_vars

\* the sample that starts a dropout at 100 Hz: the attack coefficient is 40 times the
\* recovery speed, above 1, the step from 1.0 toward 0.3 lands below 0 and the clamp
\* leaves the health, and the volume of the sample, at 0
C23_Witness ==
  /\ sample_rate = 100 /\ h_smp.is_broken /\ h_smp.started
  /\ h_smp.smoother0 = FP /\ recovery_speed(sample_rate) * 40 > CFP
  /\ dropout_smoother = 0 /\ h_smp.vol = 0


MaxGainBlocks == 4
GainPresets ==
  {[DefaultFloatParams EXCEPT !.gain = g, !.mix = 1000, !.feedback = 1000] : g \in {10000}}

InitGain == InitWith({<<0, 12345>>})

NextGain ==
  \/ \E v \in BOOLEAN : SetDistortionMode(v)
  \/ \E p \in GainPresets : SetFloatParams(p)
  \/ Initialize(3)
  \/ CallsBelow(MaxGainBlocks) /\ ProcessBegin(<<Loud, Silence>>, 0)
  \/ ProcessSample
  \/ ProcessEnd

SpecGain == InitGain /\ [][NextGain]_vars

\* the makeup gain (in milli) of drive g under the exponent table pow
MakeupOf(pow, g) == (1000 * 1000) \div pow[g]
Pow035 == [g \in {1000, 2000, 4000, 10000} |-> powf_035(g)]
Pow060 == [g \in {1000, 2000, 4000, 10000} |-> powf_060(g)]

\* the noise and crackle amounts (0.005 and 0.15 times the knobs) of the sample just
\* processed are those amounts divided by gainAmt x makeupGain
DividedAmounts ==
  LET factor == (h_smp.gain * h_smp.makeup) \div 1000
  IN  /\ h_smp.gain = fparams.gain
      /\ h_smp.noise_amt = (((5000 * 1000) \div factor) * fparams.noise) \div 1000
      /\ h_smp.crackle_amt = (((150000 * 1000) \div factor) * fparams.crackle) \div 1000

\* C25 (as stated): the makeup gain of a delay-mode sample is gainAmt^-0.35, that of
\* a distortion-only sample gainAmt^-0.60, and in both the noise and crackle
\* amplitudes are divided by gainAmt x makeupGain of that path.
C25_SeparateExponents ==
  [][SampleStep =>
       /\ h_smp'.mode = "delay" => h_smp'.makeup = MakeupOf(Pow035, fparams.gain)
       /\ h_smp'.mode = "dist" => h_smp'.makeup = MakeupOf(Pow060, fparams.gain)
       /\ DividedAmounts']_vars

\* C25 (amended): both paths apply the same makeup gain gainAmt^-0.60: the direct
\* path multiplies the filtered output by it, the delay path the delayed tap; and in
\* both paths the noise and crackle amplitudes are divided by gainAmt x makeupGain.
C25_OneExponent ==
  [][SampleStep =>
       /\ h_smp'.makeup = MakeupOf(Pow060, fparams.gain)
       /\ DividedAmounts'
       /\ h_smp'.mode = "dist" =>
            h_smp'.out = <<(lp_state_l' * h_smp'.makeup) \div 1000,
                           (lp_state_r' * h_smp'.makeup) \div 1000>>
       /\ (h_smp'.mode = "delay" /\ fparams.mix = 1000) =>
            h_smp'.out = <<(h_smp'.tap_l * h_smp'.makeup) \div 1000,
                           (h_smp'.tap_r * h_smp'.makeup) \div 1000>>]_vars

\* a delay-mode sample at drive 10 whose tap is not silent: its makeup gain is
\* 10^-0.60 = 0.251, not 10^-0.35 = 0.447, and the output is the tap times 0.251
C25_Witness ==
  /\ h_smp.mode = "delay" /\ h_smp.gain = 10000 /\ fparams.mix = 1000
  /\ h_smp.makeup = 251 /\ h_smp.makeup # MakeupOf(Pow035, 10000)
  /\ h_smp.tap_l # 0 /\ h_smp.out[1] = (h_smp.tap_l * 251) \div 1000


\* the slew of a delay-mode sample does not overshoot, and nothing else moves the
\* smoothed delay length
SlewsToward ==
  [][/\ (SampleStep /\ pc = "delay") =>
          /\ Between(current_delay_samples', current_delay_samples, loc.target)
          /\ Abs(loc.target - current_delay_samples') <= Abs(loc.target - current_delay_samples)
          /\ h_smp'.cur0 = current_delay_samples
     /\ current_delay_samples' # current_delay_samples => (SampleStep /\ pc = "delay")]_vars

MaxReinitBlocks == 3
ReinitRates == {3, 100}

InitReinit == InitWith({<<0, 12345>>})

NextReinit ==
  \/ \E sr \in ReinitRates : Initialize(sr)
  \/ CallsBelow(MaxReinitBlocks) /\ ProcessBegin(<<Loud, Silence, Silence>>, 0)
  \/ ProcessSample
  \/ ProcessEnd

SpecReinit == InitReinit /\ [][NextReinit]_vars

\* C27: after any sequence of initialize calls and process blocks the write cursor is
\* below the capacity of the delay buffers whenever that capacity is positive, and
\* every sample recorded by a delay-mode sample is stored in the buffers at the cursor.
C27_CursorInsideBuffer ==
  /\ [](delay_buffer_l.len > 0 => write_pos < delay_buffer_l.len)
  /\ [][(SampleStep /\ pc = "delay") =>
          /\ vec_get(delay_buffer_l', write_pos) = h_smp'.rec[1]
          /\ vec_get(delay_buffer_r', write_pos) = h_smp'.rec[2]]_vars

\* the first sample after initialize shortened the buffers from 200 samples to 6 with
\* the cursor at 6: what it recorded is in neither buffer, and the cursor went on to 1
C27_Witness ==
  /\ h_smp.mode = "delay" /\ h_smp.len = 6 /\ h_smp.wp = 6
  /\ h_smp.rec[1] # 0 /\ h_smp.rec[2] # 0
  /\ IsEmpty(delay_buffer_l) /\ IsEmpty(delay_buffer_r)
  /\ write_pos = 1


\* every sample held in the delay buffer v lies in [-1, 1]
InUnitRange(v) == \A i \in DOMAIN v.nz : -FP <= v.nz[i] /\ v.nz[i] <= FP

\* the buffer v changes only by being zeroed or by a delay-mode sample storing what
\* it recorded, a soft-clip output, at the write cursor
WrittenOnlyClipped(v, ch) ==
  v' # v =>
    \/ IsEmpty(v')
    \/ /\ SampleStep /\ pc = "delay"
       /\ v' = vec_set(v, write_pos, h_smp'.rec[ch])
       /\ Abs(h_smp'.rec[ch]) <= FP

C29_ReadBeforeWrite ==
  [][(SampleStep /\ pc = "delay" /\ write_pos < delay_buffer_l.len) =>
       /\ h_smp'.tap_l = linear_interpolate(delay_buffer_l, h_smp'.read_l)
       /\ h_smp'.tap_r = linear_interpolate(delay_buffer_r, h_smp'.read_r)
       /\ h_smp'.mod_l = 0 => h_smp'.tap_l = vec_get(delay_buffer_l, write_pos)
       /\ h_smp'.mod_r = 0 => h_smp'.tap_r = vec_get(delay_buffer_r, write_pos)
       /\ h_smp'.old = <<vec_get(delay_buffer_l, write_pos), vec_get(delay_buffer_r, write_pos)>>
       /\ vec_get(delay_buffer_l', write_pos) = h_smp'.rec[1]
       /\ vec_get(delay_buffer_r', write_pos) = h_smp'.rec[2]]_vars

\* the seventh sample of a 6-sample buffer, with modulated delay 0: the tap is what the
\* first sample recorded at this slot, not the loud input being recorded now, which
\* is in the slot after the sample
C29_Witness ==
  /\ h_smp.mode = "delay" /\ h_smp.len = 6 /\ h_smp.mod_l = 0 /\ h_smp.read_l = h_smp.wp * DFP
  /\ h_smp.in[1] = FP /\ h_smp.old[1] # 0 /\ h_smp.tap_l = h_smp.old[1]
  /\ h_smp.rec[1] # h_smp.old[1] /\ vec_get(delay_buffer_l, h_smp.wp) = h_smp.rec[1]


\* C30: the persisted flag is_sync_active always equals the time_sync parameter: it
\* is true in the initial state, follows every time_sync toggle and is not changed by
\* toggling broken_tape or distortion_mode; and the flag the delay-time display reads
\* is on exactly when time_sync is on.
C30_SyncFlagFollowsTimeSync ==
  /\ is_sync_active = TRUE
  /\ [](is_sync_active = time_sync)
  /\ [][/\ time_sync' # time_sync => is_sync_active' = time_sync'
        /\ (broken_tape' # broken_tape \/ distortion_mode' # distortion_mode) =>
             is_sync_active' = is_sync_active]_vars
  /\ [](time_sync_flag = time_sync)

\* tempo sync has been switched off and broken-tape on: the persisted flag is on, it
\* holds the broken-tape state, while the flag the display reads is off with time_sync
C30_Witness ==
  /\ ~time_sync /\ ~time_sync_flag
  /\ broken_tape /\ is_sync_active

====
